---- MODULE Spec2Model ----
(***************************************************************************)
(* Startup-SBOM: package / service graph construction.                     *)
(*                                                                         *)
(* Strings that the code inspects character by character (paths, manifest  *)
(* contents, unit-file directive values, version strings) are sequences of *)
(* one-character strings.  Names that are only compared for equality       *)
(* (package names, service names, CVE ids) are plain strings.              *)
(***************************************************************************)
EXTENDS Integers, Sequences, FiniteSets, TLC

VARIABLES
    ctx,        \* AnalysisContext: mode, volume_path, cve_analysis
    db,         \* package database of the volume: sequence of stanzas
    units,      \* unit files of the volume, in directory-listing order
    disk,       \* executables materialised on the volume (system paths)
    result,     \* AnalysisResult: packages, services
    services,   \* services_to_process of the running analyzer
    idx,        \* number of services the analyzer loop has processed
    pc,         \* "run" while the analyzer loops, "done" after it saved
    entries,    \* legacy output entries handed to combine_entries
    combined,   \* combine_entries' package_dict, in insertion order
    \* path resolution of one executable (SpecResolve)
    fs,         \* the directory of the executable: entry -> file, link, absent
    node,       \* the entry os.path.realpath is looking at
    seen,       \* the links os.path.realpath has followed
    rpc,        \* position in _extract_executable_paths
    paths,      \* the list _extract_executable_paths returns
    \* version normalisation (SpecVersion)
    version_str, \* the version string given to normalize_version
    normalized, \* what normalize_version returned
    vpc,        \* "call" before normalize_version ran, "returned" after
    \* enumeration of the dpkg status file (SpecStatus)
    status_file, \* var/lib/dpkg/status: whether it can be read, and its stanzas
    lineno,     \* number of lines _extract_version has read
    current_pkg, \* _extract_version's current_pkg; None is the empty string
    versions,   \* _extract_version's versions dict, in insertion order
    xpc,        \* "read" while the loop runs, then "returned" or "failed"
    \* the files of the target volume during a run of main (SpecVolume)
    args,       \* the command line: input source, mode, --save-file, cwd
    volume,     \* the files under the target root, as root-relative names
    stage,      \* "prepare", "analyze", "done"
    \* two invocations of the graph merge running at once (SpecConcurrent)
    graph,      \* the AnalysisResult both merge into
    threads,    \* per invocation: its arguments, its locals, its position
    \* the init-system backends listing services (SpecInitSystem)
    backend,    \* "systemd", "sysv", "openrc"
    tree,       \* the root: regular files, run-level directory entries
    all_services,     \* what get_all_services returned
    todo,       \* run-level entries get_startup_services has yet to visit
    seen_names, \* its local seen
    startup_services, \* its local startup_services
    ipc,        \* "all", "startup", "done"
    \* the CycloneDX projection of a graph (SpecCdx)
    cdx_result, \* the AnalysisResult handed to generate_cyclonedx
    distro,     \* what get_linux_distribution returned
    components, \* its local components
    cdx_i,      \* records the running loop has visited
    cpc,        \* "packages", "services", "return", "done"
    \* the scan server and its database (SpecServer)
    schema,     \* what schema.sql declares: is scans.scan_id UNIQUE
    agents,     \* table agents, row i has id i
    scans,      \* table scans, row i has id i
    packages,   \* table packages
    vulnerabilities,  \* table vulnerabilities
    now,        \* datetime.utcnow(), in seconds
    issued,     \* the scan_ids create_scan has answered with
    request,    \* the last request received
    response,   \* the answer to it
    \* the scan agent and the server it talks to (SpecAgent)
    apc,        \* position of SBOMAgent.run
    reg_outcome, \* how the registration request ended: "ok", "failed"
    register_ret, \* what register() returned: "true", "false"
    sent,       \* the kinds of request the agent has sent
    n_register, \* registration requests sent
    failures,   \* requests that have failed so far
    heartbeat_counter, \* heartbeat_counter % 5
    srv_registered, \* the server has the agent's row
    srv_status, \* status of the agent's scans on the server, by row
    pending_scans, \* the list check_for_work returned
    scan_i,     \* scans of that list already processed
    scan_outcome, \* what perform_scan gave for the current scan
    fetched,    \* the scans check_for_work has ever returned
    \* the agent's package scanners (SpecScanner)
    stdout,     \* what the package query printed
    scanner,    \* the scanner that ran: "apt", "rpm"
    scan_result, \* the dict the scanner returned
    spc,        \* position of the scanner
    \* resolving a unit's executable against the volume root (SpecExtract)
    raw_path,   \* the path the unit names
    vroot,      \* the volume root, volume_path
    vol_files,  \* root-relative paths of the files on the volume
    host_files, \* paths of the files on the analysing host
    analyzer,   \* the analyzer that ran: "apt", "pacman"
    handed,     \* the exec_paths handed to _find_owning_packages
    matched,    \* the normalised paths it looks up
    epc,        \* position of the extraction
    \* parse_service_executables on one service file (SpecParse)
    service_file, \* the unit file or init script: kind, path, content
    returned,   \* the list parse_service_executables returned
    ppc,        \* position of the parse
    \* main(): the root of the run (SpecMain)
    cli,        \* the parsed arguments: volume_path, docker, analysis_mode
    target_path, \* the resolved target root
    probed,     \* the roots detection has probed
    selected,   \* the package-manager analyzer selected
    context_root, \* volume_path of the AnalysisContext
    analysed,   \* the analysis that ran: "static", "chroot"
    mpc         \* position of main

scanVars == <<ctx, db, units, disk, services, result, idx, pc, entries, combined>>
resolveVars == <<fs, node, seen, rpc, paths>>
versionVars == <<version_str, normalized, vpc>>
statusVars == <<status_file, lineno, current_pkg, versions, xpc>>
volumeVars == <<args, volume, stage>>
concurrentVars == <<graph, threads>>
initSystemVars == <<backend, tree, all_services, todo, seen_names, startup_services, ipc>>
cdxVars == <<cdx_result, distro, components, cdx_i, cpc>>
serverVars == <<schema, agents, scans, packages, vulnerabilities, now, issued, request, response>>
agentVars == <<apc, reg_outcome, register_ret, sent, n_register, failures, heartbeat_counter, srv_registered, srv_status, pending_scans, scan_i, scan_outcome, fetched>>
scannerVars == <<stdout, scanner, scan_result, spc>>
extractVars == <<raw_path, vroot, vol_files, host_files, analyzer, handed, matched, epc>>
parseVars == <<service_file, returned, ppc>>
mainVars == <<cli, target_path, probed, selected, context_root, analysed, mpc>>

vars ==
    <<scanVars,
      resolveVars,
      versionVars,
      statusVars,
      volumeVars,
      concurrentVars,
      initSystemVars,
      cdxVars,
      serverVars,
      agentVars,
      scannerVars,
      extractVars,
      parseVars,
      mainVars>>

-----------------------------------------------------------------------------
(* Bounds of the model. *)

MaxPkgs == 2
MaxUnits == 2
MaxEntries == 3
MaxChain == 10
MaxVersionLen == 5
MaxStanzas == 3
MaxLinks == 2
MaxClock == 1
MaxScans == 2
MaxRows == 1
MaxFailures == 2
MaxTriggers == 2
MaxLines == 3
MaxScriptLines == 2

-----------------------------------------------------------------------------
(* Character strings. *)

s_usr == <<"u", "s", "r">>
s_bin == <<"b", "i", "n">>
s_sbin == <<"s", "b", "i", "n">>
s_mnt == <<"m", "n", "t">>
s_foo == <<"f", "o", "o">>
s_foobar == <<"f", "o", "o", "b", "a", "r">>
s_nginx == <<"n", "g", "i", "n", "x">>
s_args == <<" ", "-", "g", " ", "d", "a", "e", "m", "o", "n", " ", "o", "f", "f", ";">>

Slash == <<"/">>
NL == <<"\n">>

\* "/usr/bin/foo", "/usr/bin/foobar", "/usr/sbin/nginx"
PFoo == Slash \o s_usr \o Slash \o s_bin \o Slash \o s_foo
PFoobar == Slash \o s_usr \o Slash \o s_bin \o Slash \o s_foobar
PNginx == Slash \o s_usr \o Slash \o s_sbin \o Slash \o s_nginx

\* volume roots: "/" and "/mnt"
RootVol == Slash
MntVol == Slash \o s_mnt

\* version strings
V118 == <<"1", ".", "1", "8", ".", "0", "-", "6">>
V19 == <<"1", ".", "9">>
VEmpty == <<>>
VUnknown == <<"u", "n", "k", "n", "o", "w", "n">>

\* Python's None
None == "None"
\* the literal "unknown" the analyzers store as a package name
UnknownPkg == "unknown"

\* FRAMES-BEGIN
\* the state of a component that is not running
ScanIdle ==
    /\ ctx = [mode |-> "idle", volume_path |-> <<"/">>, cve_analysis |-> FALSE]
    /\ db = <<>>
    /\ units = <<>>
    /\ disk = {}
    /\ services = <<>>
    /\ result = [packages |-> <<>>, services |-> <<>>]
    /\ idx = 0
    /\ pc = "idle"
    /\ entries = <<>>
    /\ combined = <<>>
ResolveIdle ==
    /\ fs = <<>>
    /\ node = 0
    /\ seen = {}
    /\ rpc = "idle"
    /\ paths = <<>>
VersionIdle ==
    /\ version_str = <<>>
    /\ normalized = <<>>
    /\ vpc = "idle"
StatusIdle ==
    /\ status_file = [readable |-> FALSE, stanzas |-> <<>>]
    /\ lineno = 0
    /\ current_pkg = <<>>
    /\ versions = <<>>
    /\ xpc = "idle"
VolumeIdle ==
    /\ args = [source |-> "idle"]
    /\ volume = {}
    /\ stage = "idle"
ConcurrentIdle ==
    /\ graph = [packages |-> <<>>, services |-> <<>>]
    /\ threads = <<>>
InitSystemIdle ==
    /\ backend = "idle"
    /\ tree = [files |-> {}, listing |-> <<>>]
    /\ all_services = <<>>
    /\ todo = <<>>
    /\ seen_names = {}
    /\ startup_services = <<>>
    /\ ipc = "idle"
CdxIdle ==
    /\ cdx_result = [packages |-> <<>>, services |-> <<>>]
    /\ distro = "idle"
    /\ components = <<>>
    /\ cdx_i = 0
    /\ cpc = "idle"
ServerIdle ==
    /\ schema = [scan_id_unique |-> FALSE]
    /\ agents = <<>>
    /\ scans = <<>>
    /\ packages = <<>>
    /\ vulnerabilities = <<>>
    /\ now = 0
    /\ issued = {}
    /\ request = [op |-> "idle"]
    /\ response = [code |-> 0]
AgentIdle ==
    /\ apc = "idle"
    /\ reg_outcome = "none"
    /\ register_ret = "none"
    /\ sent = {}
    /\ n_register = 0
    /\ failures = 0
    /\ heartbeat_counter = 0
    /\ srv_registered = FALSE
    /\ srv_status = <<>>
    /\ pending_scans = <<>>
    /\ scan_i = 0
    /\ scan_outcome = "none"
    /\ fetched = {}
ScannerIdle ==
    /\ stdout = <<>>
    /\ scanner = "none"
    /\ scan_result = None
    /\ spc = "idle"
ExtractIdle ==
    /\ raw_path = <<>>
    /\ vroot = <<>>
    /\ vol_files = {}
    /\ host_files = {}
    /\ analyzer = "none"
    /\ handed = <<>>
    /\ matched = <<>>
    /\ epc = "idle"
ParseIdle ==
    /\ service_file = [kind |-> "none"]
    /\ returned = <<>>
    /\ ppc = "idle"
MainIdle ==
    /\ cli = [docker |-> <<>>]
    /\ target_path = <<>>
    /\ probed = {}
    /\ selected = "none"
    /\ context_root = <<>>
    /\ analysed = "none"
    /\ mpc = "idle"

\* what a component leaves alone: the variables of the others
NotScanVars == <<resolveVars, versionVars, statusVars, volumeVars, concurrentVars, initSystemVars, cdxVars, serverVars, agentVars, scannerVars, extractVars, parseVars, mainVars>>
NotScanIdle == ResolveIdle /\ VersionIdle /\ StatusIdle /\ VolumeIdle /\ ConcurrentIdle /\ InitSystemIdle /\ CdxIdle /\ ServerIdle /\ AgentIdle /\ ScannerIdle /\ ExtractIdle /\ ParseIdle /\ MainIdle
NotResolveVars == <<scanVars, versionVars, statusVars, volumeVars, concurrentVars, initSystemVars, cdxVars, serverVars, agentVars, scannerVars, extractVars, parseVars, mainVars>>
NotResolveIdle == ScanIdle /\ VersionIdle /\ StatusIdle /\ VolumeIdle /\ ConcurrentIdle /\ InitSystemIdle /\ CdxIdle /\ ServerIdle /\ AgentIdle /\ ScannerIdle /\ ExtractIdle /\ ParseIdle /\ MainIdle
NotVersionVars == <<scanVars, resolveVars, statusVars, volumeVars, concurrentVars, initSystemVars, cdxVars, serverVars, agentVars, scannerVars, extractVars, parseVars, mainVars>>
NotVersionIdle == ScanIdle /\ ResolveIdle /\ StatusIdle /\ VolumeIdle /\ ConcurrentIdle /\ InitSystemIdle /\ CdxIdle /\ ServerIdle /\ AgentIdle /\ ScannerIdle /\ ExtractIdle /\ ParseIdle /\ MainIdle
NotStatusVars == <<scanVars, resolveVars, versionVars, volumeVars, concurrentVars, initSystemVars, cdxVars, serverVars, agentVars, scannerVars, extractVars, parseVars, mainVars>>
NotStatusIdle == ScanIdle /\ ResolveIdle /\ VersionIdle /\ VolumeIdle /\ ConcurrentIdle /\ InitSystemIdle /\ CdxIdle /\ ServerIdle /\ AgentIdle /\ ScannerIdle /\ ExtractIdle /\ ParseIdle /\ MainIdle
NotVolumeVars == <<scanVars, resolveVars, versionVars, statusVars, concurrentVars, initSystemVars, cdxVars, serverVars, agentVars, scannerVars, extractVars, parseVars, mainVars>>
NotVolumeIdle == ScanIdle /\ ResolveIdle /\ VersionIdle /\ StatusIdle /\ ConcurrentIdle /\ InitSystemIdle /\ CdxIdle /\ ServerIdle /\ AgentIdle /\ ScannerIdle /\ ExtractIdle /\ ParseIdle /\ MainIdle
NotConcurrentVars == <<scanVars, resolveVars, versionVars, statusVars, volumeVars, initSystemVars, cdxVars, serverVars, agentVars, scannerVars, extractVars, parseVars, mainVars>>
NotConcurrentIdle == ScanIdle /\ ResolveIdle /\ VersionIdle /\ StatusIdle /\ VolumeIdle /\ InitSystemIdle /\ CdxIdle /\ ServerIdle /\ AgentIdle /\ ScannerIdle /\ ExtractIdle /\ ParseIdle /\ MainIdle
NotInitSystemVars == <<scanVars, resolveVars, versionVars, statusVars, volumeVars, concurrentVars, cdxVars, serverVars, agentVars, scannerVars, extractVars, parseVars, mainVars>>
NotInitSystemIdle == ScanIdle /\ ResolveIdle /\ VersionIdle /\ StatusIdle /\ VolumeIdle /\ ConcurrentIdle /\ CdxIdle /\ ServerIdle /\ AgentIdle /\ ScannerIdle /\ ExtractIdle /\ ParseIdle /\ MainIdle
NotCdxVars == <<scanVars, resolveVars, versionVars, statusVars, volumeVars, concurrentVars, initSystemVars, serverVars, agentVars, scannerVars, extractVars, parseVars, mainVars>>
NotCdxIdle == ScanIdle /\ ResolveIdle /\ VersionIdle /\ StatusIdle /\ VolumeIdle /\ ConcurrentIdle /\ InitSystemIdle /\ ServerIdle /\ AgentIdle /\ ScannerIdle /\ ExtractIdle /\ ParseIdle /\ MainIdle
NotServerVars == <<scanVars, resolveVars, versionVars, statusVars, volumeVars, concurrentVars, initSystemVars, cdxVars, agentVars, scannerVars, extractVars, parseVars, mainVars>>
NotServerIdle == ScanIdle /\ ResolveIdle /\ VersionIdle /\ StatusIdle /\ VolumeIdle /\ ConcurrentIdle /\ InitSystemIdle /\ CdxIdle /\ AgentIdle /\ ScannerIdle /\ ExtractIdle /\ ParseIdle /\ MainIdle
NotAgentVars == <<scanVars, resolveVars, versionVars, statusVars, volumeVars, concurrentVars, initSystemVars, cdxVars, serverVars, scannerVars, extractVars, parseVars, mainVars>>
NotAgentIdle == ScanIdle /\ ResolveIdle /\ VersionIdle /\ StatusIdle /\ VolumeIdle /\ ConcurrentIdle /\ InitSystemIdle /\ CdxIdle /\ ServerIdle /\ ScannerIdle /\ ExtractIdle /\ ParseIdle /\ MainIdle
NotScannerVars == <<scanVars, resolveVars, versionVars, statusVars, volumeVars, concurrentVars, initSystemVars, cdxVars, serverVars, agentVars, extractVars, parseVars, mainVars>>
NotScannerIdle == ScanIdle /\ ResolveIdle /\ VersionIdle /\ StatusIdle /\ VolumeIdle /\ ConcurrentIdle /\ InitSystemIdle /\ CdxIdle /\ ServerIdle /\ AgentIdle /\ ExtractIdle /\ ParseIdle /\ MainIdle
NotExtractVars == <<scanVars, resolveVars, versionVars, statusVars, volumeVars, concurrentVars, initSystemVars, cdxVars, serverVars, agentVars, scannerVars, parseVars, mainVars>>
NotExtractIdle == ScanIdle /\ ResolveIdle /\ VersionIdle /\ StatusIdle /\ VolumeIdle /\ ConcurrentIdle /\ InitSystemIdle /\ CdxIdle /\ ServerIdle /\ AgentIdle /\ ScannerIdle /\ ParseIdle /\ MainIdle
NotParseVars == <<scanVars, resolveVars, versionVars, statusVars, volumeVars, concurrentVars, initSystemVars, cdxVars, serverVars, agentVars, scannerVars, extractVars, mainVars>>
NotParseIdle == ScanIdle /\ ResolveIdle /\ VersionIdle /\ StatusIdle /\ VolumeIdle /\ ConcurrentIdle /\ InitSystemIdle /\ CdxIdle /\ ServerIdle /\ AgentIdle /\ ScannerIdle /\ ExtractIdle /\ MainIdle
NotMainVars == <<scanVars, resolveVars, versionVars, statusVars, volumeVars, concurrentVars, initSystemVars, cdxVars, serverVars, agentVars, scannerVars, extractVars, parseVars>>
NotMainIdle == ScanIdle /\ ResolveIdle /\ VersionIdle /\ StatusIdle /\ VolumeIdle /\ ConcurrentIdle /\ InitSystemIdle /\ CdxIdle /\ ServerIdle /\ AgentIdle /\ ScannerIdle /\ ExtractIdle /\ ParseIdle
\* FRAMES-END

RECURSIVE SeqToSet(_)
SeqToSet(s) == IF s = <<>> THEN {} ELSE {Head(s)} \cup SeqToSet(Tail(s))

\* all orderings of a finite set, as sequences without repetition
Orderings(S) ==
    {f \in [1..Cardinality(S) -> S] : \A i, j \in 1..Cardinality(S) : f[i] = f[j] => i = j}

\* str.startswith
StartsWith(s, p) == Len(s) >= Len(p) /\ SubSeq(s, 1, Len(p)) = p

\* the Python test `t in s` on strings: t occurs in s as a substring
IsSubstring(t, s) ==
    \E i \in 0..(Len(s) - Len(t)) : SubSeq(s, i + 1, i + Len(t)) = t

\* str.lstrip(c) for a one-character c
RECURSIVE LStrip(_, _)
LStrip(s, c) == IF s # <<>> /\ Head(s) = c THEN LStrip(Tail(s), c) ELSE s

\* str.split(sep) for a one-character sep: the pieces, empty ones included
RECURSIVE SplitOn(_, _, _)
SplitOn(s, sep, cur) ==
    IF s = <<>> THEN <<cur>>
    ELSE IF Head(s) = sep THEN <<cur>> \o SplitOn(Tail(s), sep, <<>>)
    ELSE SplitOn(Tail(s), sep, Append(cur, Head(s)))

RECURSIVE DropEmpty(_)
DropEmpty(ps) ==
    IF ps = <<>> THEN <<>>
    ELSE IF Head(ps) = <<>> THEN DropEmpty(Tail(ps))
    ELSE <<Head(ps)>> \o DropEmpty(Tail(ps))

\* the components of an absolute path
Components(p) == DropEmpty(SplitOn(p, "/", <<>>))

\* sep.join(parts)
RECURSIVE Join(_, _)
Join(parts, sep) ==
    IF parts = <<>> THEN <<>>
    ELSE IF Len(parts) = 1 THEN Head(parts)
    ELSE Head(parts) \o sep \o Join(Tail(parts), sep)

\* str.splitlines()
SplitLines(content) ==
    LET ps == SplitOn(content, "\n", <<>>)
    IN  IF ps[Len(ps)] = <<>> THEN SubSeq(ps, 1, Len(ps) - 1) ELSE ps

RECURSIVE CommonPrefixLen(_, _)
CommonPrefixLen(a, b) ==
    IF a = <<>> \/ b = <<>> \/ Head(a) # Head(b) THEN 0
    ELSE 1 + CommonPrefixLen(Tail(a), Tail(b))

\* os.path.relpath(path, start) for absolute, normalised arguments
RelPath(path, start) ==
    LET sl == Components(start)
        pl == Components(path)
        i == CommonPrefixLen(sl, pl)
        rel == [k \in 1..(Len(sl) - i) |-> <<".", ".">>] \o SubSeq(pl, i + 1, Len(pl))
    IN  IF rel = <<>> THEN <<".">> ELSE Join(rel, Slash)

\* os.path.join(volume_path, path.lstrip('/')), normalised
JoinVolume(volume_path, path) ==
    Slash \o Join(Components(volume_path) \o Components(path), Slash)

-----------------------------------------------------------------------------
(* The volume under analysis. *)

PkgNames == {"A", "B", "nginx"}
ServiceNames == {"nginx.service", "foo.service"}
FileLists == {<<>>, <<PFoo>>, <<PFoobar>>, <<PNginx>>}
Versions == {V118}
Volumes == {RootVol, MntVol}
LookupResults == {<<>>, <<"CVE-1">>, <<"CVE-2">>}

\* one record of a package database: a dpkg stanza with its .list manifest, a
\* pacman local/<pkg>-<ver> directory, an apk stanza
\* A and B ship foo and foobar, nginx ships nginx; any of them may be empty
Ships(n) == IF n = "nginx" THEN {<<>>, <<PNginx>>} ELSE {<<>>, <<PFoo>>, <<PFoobar>>}
Stanzas == {st \in [name : PkgNames, version : Versions, files : FileLists] :
               st.files \in Ships(st.name)}

\* the directive lines of a unit file: key=value
ExecLine(k, v) == [key |-> k, value |-> v]
UnitBodies ==
    { <<>>,
      <<ExecLine("ExecStart", PNginx \o s_args)>>,
      <<ExecLine("ExecStart", <<"-">> \o PFoo)>>,
      <<ExecLine("ExecStart", PNginx), ExecLine("ExecStop", PFoo)>> }
UnitFiles == [name : ServiceNames, lines : UnitBodies]

SeqsUpTo(S, n) == UNION {[1..k -> S] : k \in 0..n}

DistinctNames(s) == \A i, j \in 1..Len(s) : s[i].name = s[j].name => i = j

-----------------------------------------------------------------------------
(* Records of the result graph. *)

PackageMetadata(n, v) ==
    [name |-> n, version |-> v, files |-> <<>>, vulnerabilities |-> <<>>]

ServiceMetadata(n, ex) ==
    [name |-> n, status |-> "unknown", associated_package |-> None,
     version |-> VUnknown, executables |-> ex, execution_time |-> <<>>]

AnalysisResult == [packages |-> <<>>, services |-> <<>>]

HasPackage(res, n) == \E i \in 1..Len(res.packages) : res.packages[i].name = n
HasService(res, n) == \E i \in 1..Len(res.services) : res.services[i].name = n

\* next((p for p in result.packages if p.name == pkg_name), None), as an index
FirstPackage(res, n) ==
    CHOOSE i \in 1..Len(res.packages) :
        /\ res.packages[i].name = n
        /\ \A j \in 1..(i - 1) : res.packages[j].name # n

-----------------------------------------------------------------------------
(* Init-system backend: systemd. *)

ExecKeys == {"ExecStart", "ExecStop", "ExecPre", "ExecPost", "ExecReload"}
Modifiers == {"-", "@", "+", "!", ":"}

RECURSIVE RStrip(_, _)
RStrip(s, c) ==
    IF s # <<>> /\ s[Len(s)] = c THEN RStrip(SubSeq(s, 1, Len(s) - 1), c) ELSE s

\* str.strip() on the blanks the model uses
Strip(s) == RStrip(LStrip(s, " "), " ")

RECURSIVE StripModifiers(_)
StripModifiers(cmd) ==
    IF cmd # <<>> /\ Head(cmd) \in Modifiers THEN StripModifiers(Tail(cmd)) ELSE cmd

\* cmd.split(): the whitespace-delimited tokens
Tokens(cmd) == DropEmpty(SplitOn(cmd, " ", <<>>))

\* the executable one directive line contributes, as a set of at most one path
LineExecutable(line) ==
    IF line.key \notin ExecKeys \/ line.value = <<>> THEN {}
    ELSE LET cmd == StripModifiers(Strip(line.value))
             parts == Tokens(cmd)
         IN  IF Strip(line.value) = <<>> \/ parts = <<>> THEN {}
             ELSE IF StartsWith(parts[1], Slash) THEN {parts[1]} ELSE {}

\* SystemdAnalyzer.parse_service_executables: list(set(paths)), as the set
parse_service_executables(unit) ==
    UNION {LineExecutable(unit.lines[i]) : i \in 1..Len(unit.lines)}

\* the unit files get_all_services keeps: the first of each name
KeptUnits(us) ==
    {i \in 1..Len(us) : \A j \in 1..(i - 1) : us[j].name # us[i].name}

\* SystemdAnalyzer.get_all_services under CompositeInitSystem: one record per
\* unit name, first seen wins; execOrder picks the order list(set()) gives
RECURSIVE get_all_services(_, _)
get_all_services(us, execOrder) ==
    IF us = <<>> THEN <<>>
    ELSE LET rest == get_all_services(SubSeq(us, 1, Len(us) - 1), execOrder)
             u == us[Len(us)]
         IN  IF Len(us) \in KeptUnits(us)
             THEN Append(rest, [ServiceMetadata(u.name, execOrder[Len(us)])
                                   EXCEPT !.status = "disabled"])
             ELSE rest

ExecOrders(us) ==
    {f \in [1..Len(us) -> UNION {Orderings(parse_service_executables(u)) : u \in UnitFiles}] :
        \A i \in 1..Len(us) : f[i] \in Orderings(parse_service_executables(us[i]))}

-----------------------------------------------------------------------------
(* Package-manager backend: APT / dpkg. *)

\* the text of var/lib/dpkg/info/<pkg>.list: one owned path per line
ListContent(files) ==
    IF files = <<>> THEN <<>> ELSE Join(files, NL) \o NL

\* APTAnalyzer._extract_version(dpkg_status_path): the dict of all versions, as
\* the set of package names of the status file and a lookup; a later stanza of
\* the same name overwrites an earlier one
StatusNames(stanzas) == {stanzas[i].name : i \in 1..Len(stanzas)}
StatusVersion(stanzas, n) ==
    LET last == CHOOSE i \in 1..Len(stanzas) :
                    /\ stanzas[i].name = n
                    /\ \A j \in (i + 1)..Len(stanzas) : stanzas[j].name # n
    IN  stanzas[last].version

\* versions.get(pkg_name, "unknown")
VersionsGet(stanzas, n) ==
    IF n \in StatusNames(stanzas) THEN StatusVersion(stanzas, n) ELSE VUnknown

\* the normalisation loop of _find_owning_packages: "/" + relpath(ep, volume)
AptNormalize(ep, volume_path) == Slash \o RelPath(ep, volume_path)

\* APTAnalyzer._find_owning_packages: list(set(owners)), as the set
AptFindOwningPackages(stanzas, exec_paths, volume_path) ==
    {stanzas[i].name : i \in
        {k \in 1..Len(stanzas) :
            \E e \in 1..Len(exec_paths) :
                IsSubstring(AptNormalize(exec_paths[e], volume_path),
                            ListContent(stanzas[k].files))}}

\* APTAnalyzer._enrich_with_cve: available is check_nvdlib_available(), cves
\* is what lookup_cves returns
EnrichWithCve(package, available, cves) ==
    IF ~available THEN package ELSE [package EXCEPT !.vulnerabilities = cves]

\* the file loop of _analyze_static_service: append each path not yet present
RECURSIVE AddFiles(_, _)
AddFiles(files, exec_paths) ==
    IF exec_paths = <<>> THEN files
    ELSE LET ep == Head(exec_paths)
         IN  AddFiles(IF \E i \in 1..Len(files) : files[i] = ep
                      THEN files ELSE Append(files, ep),
                      Tail(exec_paths))

\* the package half of one pass of the owner loop of _analyze_static_service
MergePackage(res, pkg_name, version, exec_paths, enrich, available, cves) ==
    LET created ==
            IF HasPackage(res, pkg_name) THEN res.packages
            ELSE Append(res.packages,
                        IF enrich
                        THEN EnrichWithCve(PackageMetadata(pkg_name, version), available, cves)
                        ELSE PackageMetadata(pkg_name, version))
        i == CHOOSE k \in 1..Len(created) :
                 /\ created[k].name = pkg_name
                 /\ \A j \in 1..(k - 1) : created[j].name # pkg_name
    IN  [res EXCEPT !.packages =
            [created EXCEPT ![i].files = AddFiles(created[i].files, exec_paths)]]

\* the service half: the record is added unless one of that name is present
MergeService(res, svc, pkg_name, version) ==
    IF HasService(res, svc.name) THEN res
    ELSE [res EXCEPT !.services =
            Append(res.services,
                   [svc EXCEPT !.associated_package = pkg_name, !.version = version])]

\* one pass of the owner loop of _analyze_static_service
MergeOwner(res, svc, pkg_name, version, enrich, available, cves) ==
    MergeService(
        MergePackage(res, pkg_name, version, svc.executables, enrich, available, cves),
        svc, pkg_name, version)

\* the owner loop of _analyze_static_service for one service: owners in the
\* order list(set(owners)) yields them, lookups[p] what the CVE lookup returns
RECURSIVE AptStaticOwners(_, _, _, _, _, _, _)
AptStaticOwners(res, svc, owners, stanzas, enrich, available, lookups) ==
    IF owners = <<>> THEN res
    ELSE AptStaticOwners(
            MergeOwner(res, svc, Head(owners), VersionsGet(stanzas, Head(owners)),
                       enrich, available, lookups[Head(owners)]),
            svc, Tail(owners), stanzas, enrich, available, lookups)

\* the body of the service loop of _analyze_static_service
AptStaticService(res, svc, stanzas, volume_path, enrich, available, order, lookups) ==
    IF svc.executables = <<>> THEN res
    ELSE AptStaticOwners(res, svc, order, stanzas, enrich, available, lookups)

(* Package-manager backend: APT in chroot mode. *)

\* the directive keys the regex (Exec(?:Start|Stop|Pre)?=)(.+) of the package
\* managers' _extract_executable_paths finds
LegacyExecKeys == {"Exec", "ExecStart", "ExecStop", "ExecPre"}

\* args[0] with one leading '-' removed
LegacyToken(value) ==
    LET parts == Tokens(value)
    IN  IF parts[1] # <<>> /\ Head(parts[1]) = "-" THEN Tail(parts[1]) ELSE parts[1]

\* APTAnalyzer._extract_executable_paths: a path is kept when it exists under
\* the volume (recorded as its path on the host), or else on the host itself
RECURSIVE AptExtractExecutablePaths(_, _, _, _)
AptExtractExecutablePaths(lines, volume_path, onDisk, onHost) ==
    IF lines = <<>> THEN <<>>
    ELSE LET l == Head(lines)
             rest == AptExtractExecutablePaths(Tail(lines), volume_path, onDisk, onHost)
         IN  IF l.key \notin LegacyExecKeys \/ Tokens(l.value) = <<>> THEN rest
             ELSE LET path == LegacyToken(l.value)
                  IN  IF path \in onDisk THEN <<JoinVolume(volume_path, path)>> \o rest
                      ELSE IF path \in onHost THEN <<path>> \o rest
                      ELSE rest

\* versions.get(package_name, "") of _extract_version(path, package_name)
VersionOf(stanzas, n) ==
    IF n \in StatusNames(stanzas) THEN StatusVersion(stanzas, n) ELSE VEmpty

\* one pass of the owner loop of _analyze_chroot_services
ChrootOwner(res, service_name, time_str, exec_paths, pkg_name, version, enrich, available, cves) ==
    LET pkgs == IF HasPackage(res, pkg_name) THEN res.packages
                ELSE Append(res.packages,
                            IF enrich
                            THEN EnrichWithCve(PackageMetadata(pkg_name, version), available, cves)
                            ELSE PackageMetadata(pkg_name, version))
    IN  [packages |-> pkgs,
         services |-> Append(res.services,
                             [ServiceMetadata(service_name, exec_paths)
                                 EXCEPT !.associated_package = pkg_name,
                                        !.version = version,
                                        !.execution_time = time_str])]

RECURSIVE AptChrootOwners(_, _, _, _, _, _)
AptChrootOwners(res, service_name, time_str, exec_paths, owners, stanzas) ==
    IF owners = <<>> THEN res
    ELSE AptChrootOwners(
            ChrootOwner(res, service_name, time_str, exec_paths, Head(owners),
                        VersionOf(stanzas, Head(owners)), FALSE, FALSE, <<>>),
            service_name, time_str, exec_paths, Tail(owners), stanzas)

-----------------------------------------------------------------------------
(* Package-manager backend: pacman. *)

\* PacmanAnalyzer._extract_executable_paths: the absolute first tokens, in
\* file order
RECURSIVE PacmanExtractExecutablePaths(_)
PacmanExtractExecutablePaths(lines) ==
    IF lines = <<>> THEN <<>>
    ELSE LET l == Head(lines)
             rest == PacmanExtractExecutablePaths(Tail(lines))
         IN  IF l.key \notin LegacyExecKeys \/ Tokens(l.value) = <<>> THEN rest
             ELSE IF StartsWith(LegacyToken(l.value), Slash)
                  THEN <<LegacyToken(l.value)>> \o rest
                  ELSE rest

\* the text of local/<pkg>-<ver>/files: one root-relative path per line
PacmanFilesContent(files) ==
    IF files = <<>> THEN <<>>
    ELSE Join([i \in 1..Len(files) |-> Tail(files[i])], NL) \o NL

\* the target of _find_owning_packages for one executable
PacmanTarget(ep, volume_path) ==
    LStrip(IF StartsWith(ep, volume_path) THEN RelPath(ep, volume_path) ELSE ep, "/")

\* PacmanAnalyzer._find_owning_packages: list(set(owners)), as the set
PacmanFindOwningPackages(stanzas, exec_paths, volume_path) ==
    {stanzas[i].name : i \in
        {k \in 1..Len(stanzas) :
            \E e \in 1..Len(exec_paths) :
                \E l \in 1..Len(SplitLines(PacmanFilesContent(stanzas[k].files))) :
                    SplitLines(PacmanFilesContent(stanzas[k].files))[l]
                        = PacmanTarget(exec_paths[e], volume_path)}}

\* PacmanAnalyzer._get_package_version: the first directory of that name
PacmanVersion(stanzas, n) ==
    IF n \notin StatusNames(stanzas) THEN VUnknown
    ELSE LET first == CHOOSE i \in 1..Len(stanzas) :
                          /\ stanzas[i].name = n
                          /\ \A j \in 1..(i - 1) : stanzas[j].name # n
         IN  IF stanzas[first].version = VEmpty THEN VUnknown ELSE stanzas[first].version

RECURSIVE PacmanStaticOwners(_, _, _, _)
PacmanStaticOwners(res, svc, owners, stanzas) ==
    IF owners = <<>> THEN res
    ELSE PacmanStaticOwners(
            MergeOwner(res, svc, Head(owners), PacmanVersion(stanzas, Head(owners)),
                       FALSE, FALSE, <<>>),
            svc, Tail(owners), stanzas)

-----------------------------------------------------------------------------
(* Package-manager backend: apk. *)

\* the o: lines of a stanza of lib/apk/db/installed: root-relative paths
ApkFiles(files) == [i \in 1..Len(files) |-> Tail(files[i])]

\* APKAnalyzer._parse_apk_db: one dict per stanza, in file order
parse_apk_db(stanzas) ==
    [i \in 1..Len(stanzas) |->
        [name |-> stanzas[i].name, version |-> stanzas[i].version,
         files |-> ApkFiles(stanzas[i].files)]]

\* the "Populate Packages" loop of APKAnalyzer.analyze_static
ApkPopulate(pkgs) ==
    [i \in 1..Len(pkgs) |->
        [PackageMetadata(pkgs[i].name, pkgs[i].version) EXCEPT !.files = pkgs[i].files]]

\* whether a parsed package holds one of the executables
ApkOwns(p, exec_paths) ==
    \E f \in 1..Len(p.files) : \E e \in 1..Len(exec_paths) :
        p.files[f] = LStrip(exec_paths[e], "/")

\* the owner search of analyze_static: the first package, in database order,
\* that holds one of the executables; "unknown" when there is none
ApkOwner(pkgs, exec_paths) ==
    IF \E i \in 1..Len(pkgs) : ApkOwns(pkgs[i], exec_paths)
    THEN LET first == CHOOSE i \in 1..Len(pkgs) :
                          /\ ApkOwns(pkgs[i], exec_paths)
                          /\ \A j \in 1..(i - 1) : ~ApkOwns(pkgs[j], exec_paths)
         IN  [owner |-> pkgs[first].name, version |-> pkgs[first].version]
    ELSE [owner |-> UnknownPkg, version |-> VUnknown]

\* the body of the service loop of analyze_static
ApkService(res, svc, pkgs) ==
    IF svc.executables = <<>> THEN res
    ELSE LET o == ApkOwner(pkgs, svc.executables)
         IN  IF HasService(res, svc.name) THEN res
             ELSE [res EXCEPT !.services =
                     Append(res.services,
                            [svc EXCEPT !.associated_package = o.owner,
                                        !.version = o.version])]

-----------------------------------------------------------------------------
(* The scan: one analyzer run over one volume. *)

Modes == {"apt_static_service", "apt_chroot", "pacman_static_service", "apk_static"}
\* the backends whose database and unit files are directory entries
DirModes == {"apt_static_service", "apt_chroot", "pacman_static_service"}
SingleDirModes == {"apt_chroot", "pacman_static_service"}
Disks == {{}, {PFoo, PNginx}}
TimeStr == <<"1", "2", "m", "s">>

Init ==
    /\ ctx \in [mode : Modes, volume_path : Volumes, cve_analysis : {FALSE}]
    /\ db \in SeqsUpTo(Stanzas, MaxPkgs)
    /\ (ctx.mode \in DirModes => DistinctNames(db))
    /\ units \in SeqsUpTo(UnitFiles, MaxUnits)
    /\ (ctx.mode \in SingleDirModes => DistinctNames(units))
    /\ disk \in Disks
    /\ (ctx.mode # "apt_chroot" => disk = {})
    /\ services = <<>>
    /\ result = AnalysisResult
    /\ idx = 0
    /\ pc = "start"
    /\ entries = <<>>
    /\ combined = <<>>
    /\ NotScanIdle

\* what the analyzer loops over: the init system's services (apt, apk), the
\* unit files of the systemd directory (pacman), the services of the boot plot
\* (chroot mode)
ServicesToProcess(mode, us, execOrder) ==
    CASE mode \in {"apt_static_service", "apk_static"} -> get_all_services(us, execOrder)
      [] mode = "pacman_static_service" ->
            [i \in 1..Len(us) |->
                ServiceMetadata(us[i].name, PacmanExtractExecutablePaths(us[i].lines))]
      [] mode = "apt_chroot" ->
            [i \in 1..Len(us) |->
                [ServiceMetadata(us[i].name, <<>>) EXCEPT !.execution_time = TimeStr]]

\* the analyzer up to its service loop
Enumerate ==
    /\ pc = "start"
    /\ \E eo \in ExecOrders(units) :
          services' = ServicesToProcess(ctx.mode, units, eo)
    /\ result' = IF ctx.mode = "apk_static"
                 THEN [result EXCEPT !.packages = ApkPopulate(parse_apk_db(db))]
                 ELSE result
    /\ pc' = "run"
    /\ UNCHANGED <<ctx, db, units, disk, idx, entries, combined>>
    /\ UNCHANGED NotScanVars

\* APTAnalyzer._analyze_static_service, one service
AptStaticServiceStep ==
    /\ pc = "run"
    /\ ctx.mode = "apt_static_service"
    /\ idx < Len(services)
    /\ LET svc == services[idx + 1]
           owners == AptFindOwningPackages(db, svc.executables, ctx.volume_path)
       IN  \E order \in Orderings(owners) :
              result' = AptStaticService(result, svc, db, ctx.volume_path,
                                         ctx.cve_analysis, FALSE, order,
                                         [p \in owners |-> <<>>])
    /\ idx' = idx + 1
    /\ UNCHANGED <<ctx, db, units, disk, services, pc, entries, combined>>
    /\ UNCHANGED NotScanVars

\* APTAnalyzer._analyze_chroot_services, one service of the boot plot
AptChrootStep ==
    /\ pc = "run"
    /\ ctx.mode = "apt_chroot"
    /\ idx < Len(services)
    /\ \E hostHas \in BOOLEAN :
        LET svc == services[idx + 1]
            unit == units[idx + 1]
            onHost == IF ctx.volume_path = RootVol THEN disk
                      ELSE IF hostHas THEN {PFoo, PFoobar, PNginx} ELSE {}
            exec_paths == AptExtractExecutablePaths(unit.lines, ctx.volume_path, disk, onHost)
            owners == AptFindOwningPackages(db, exec_paths, ctx.volume_path)
        IN  \E order \in Orderings(owners) :
               result' = IF exec_paths = <<>> THEN result
                         ELSE AptChrootOwners(result, svc.name, svc.execution_time,
                                              exec_paths, order, db)
    /\ idx' = idx + 1
    /\ UNCHANGED <<ctx, db, units, disk, services, pc, entries, combined>>
    /\ UNCHANGED NotScanVars

\* PacmanAnalyzer._analyze_static_service, one unit file
PacmanStaticServiceStep ==
    /\ pc = "run"
    /\ ctx.mode = "pacman_static_service"
    /\ idx < Len(services)
    /\ LET svc == services[idx + 1]
           owners == PacmanFindOwningPackages(db, svc.executables, ctx.volume_path)
       IN  \E order \in Orderings(owners) :
              result' = IF svc.executables = <<>> THEN result
                        ELSE PacmanStaticOwners(result, svc, order, db)
    /\ idx' = idx + 1
    /\ UNCHANGED <<ctx, db, units, disk, services, pc, entries, combined>>
    /\ UNCHANGED NotScanVars

\* APKAnalyzer.analyze_static, one service
ApkStaticStep ==
    /\ pc = "run"
    /\ ctx.mode = "apk_static"
    /\ idx < Len(services)
    /\ result' = ApkService(result, services[idx + 1], parse_apk_db(db))
    /\ idx' = idx + 1
    /\ UNCHANGED <<ctx, db, units, disk, services, pc, entries, combined>>
    /\ UNCHANGED NotScanVars

\* _print_table and _save_output: the graph is written out as it stands
Finish ==
    /\ pc = "run"
    /\ idx = Len(services)
    /\ pc' = "done"
    /\ UNCHANGED <<ctx, db, units, disk, services, result, idx, entries, combined>>
    /\ UNCHANGED NotScanVars

Next ==
    \/ Enumerate
    \/ AptStaticServiceStep
    \/ AptChrootStep
    \/ PacmanStaticServiceStep
    \/ ApkStaticStep
    \/ Finish

Spec == Init /\ [][Next]_vars

-----------------------------------------------------------------------------
(* Legacy output formatting: combine_entries of apt_outputs.py. *)

\* the characters of the model in ASCII order, for Python's string comparison
Ascii ==
    <<" ", "-", ".", "/", "0", "1", "2", "3", "4", "5", "6", "7", "8", "9", ";",
      "a", "b", "c", "d", "e", "f", "g", "h", "i", "j", "k", "l", "m", "n", "o",
      "p", "q", "r", "s", "t", "u", "v", "w", "x", "y", "z">>
Rank(c) == CHOOSE i \in 1..Len(Ascii) : Ascii[i] = c

\* a < b on Python strings
RECURSIVE StrLess(_, _)
StrLess(a, b) ==
    IF b = <<>> THEN FALSE
    ELSE IF a = <<>> THEN TRUE
    ELSE IF Head(a) = Head(b) THEN StrLess(Tail(a), Tail(b))
    ELSE Rank(Head(a)) < Rank(Head(b))

\* insert x into the sorted list l, after the elements equal to it
RECURSIVE InsertSorted(_, _)
InsertSorted(l, x) ==
    IF l = <<>> THEN <<x>>
    ELSE IF StrLess(x, Head(l)) THEN <<x>> \o l
    ELSE <<Head(l)>> \o InsertSorted(Tail(l), x)

\* list.sort() / sorted() on a list of strings
RECURSIVE SortStrings(_)
SortStrings(l) ==
    IF l = <<>> THEN <<>> ELSE InsertSorted(SortStrings(SubSeq(l, 1, Len(l) - 1)), l[Len(l)])

\* sorted(set(l))
RECURSIVE Dedupe(_)
Dedupe(l) ==
    IF l = <<>> THEN <<>>
    ELSE LET rest == Dedupe(SubSeq(l, 1, Len(l) - 1))
         IN  IF \E i \in 1..Len(rest) : rest[i] = l[Len(l)] THEN rest
             ELSE Append(rest, l[Len(l)])
SortedSet(l) == SortStrings(Dedupe(l))

IsDigit(c) == c \in {"0", "1", "2", "3", "4", "5", "6", "7", "8", "9"}

\* re.search(r'\d+', s).group(): the first run of digits
RECURSIVE DigitRun(_)
DigitRun(s) ==
    IF s = <<>> \/ ~IsDigit(Head(s)) THEN <<>> ELSE <<Head(s)>> \o DigitRun(Tail(s))
RECURSIVE FirstDigits(_)
FirstDigits(s) ==
    IF s = <<>> THEN <<>>
    ELSE IF IsDigit(Head(s)) THEN DigitRun(s) ELSE FirstDigits(Tail(s))

\* package_name in package_dict, and the position of its value
InDict(dict, n) == \E i \in 1..Len(dict) : dict[i].Package = n
DictIndex(dict, n) == CHOOSE i \in 1..Len(dict) : dict[i].Package = n

\* chroot_mode_entry_service.combine_entries, one entry of the loop
ChrootCombineEntry(dict, entry) ==
    IF entry.Package = None THEN dict
    ELSE IF ~InDict(dict, entry.Package) THEN Append(dict, entry)
    ELSE LET i == DictIndex(dict, entry.Package)
             e == dict[i]
         IN  [dict EXCEPT ![i] =
                [e EXCEPT
                    !.ExecutablePath = SortStrings(e.ExecutablePath \o entry.ExecutablePath),
                    !.ExecutionTime = FirstDigits(entry.ExecutionTime),
                    !.Version = IF StrLess(e.Version, entry.Version)
                                THEN entry.Version ELSE e.Version]]

\* as StaticCombineEntry, but a later non-empty version overwrites the
\* recorded one
StaticCombineEntry_LastWins(dict, entry) ==
    IF entry.Package = None THEN dict
    ELSE IF ~InDict(dict, entry.Package) THEN Append(dict, entry)
    ELSE LET i == DictIndex(dict, entry.Package)
             e == dict[i]
         IN  [dict EXCEPT ![i] =
                [e EXCEPT
                    !.ExecutablePath = SortedSet(e.ExecutablePath \o entry.ExecutablePath),
                    !.Version = IF entry.Version # VEmpty
                                THEN entry.Version ELSE e.Version]]

\* static_mode_entry_service.combine_entries, one entry of the loop
StaticCombineEntry(dict, entry) ==
    IF entry.Package = None THEN dict
    ELSE IF ~InDict(dict, entry.Package) THEN Append(dict, entry)
    ELSE LET i == DictIndex(dict, entry.Package)
             e == dict[i]
         IN  [dict EXCEPT ![i] =
                [e EXCEPT
                    !.ExecutablePath = SortedSet(e.ExecutablePath \o entry.ExecutablePath),
                    !.Version = IF entry.Version # VEmpty /\ e.Version = VEmpty
                                THEN entry.Version ELSE e.Version]]

CombineEntry(mode, dict, entry) ==
    IF mode = "chroot_combine" THEN ChrootCombineEntry(dict, entry)
    ELSE StaticCombineEntry(dict, entry)

-----------------------------------------------------------------------------
(* Merging: the graph merge of the analyzers and the legacy combine_entries, *)
(* each applied to any sequence of records.                                 *)

MergeNames == {"A", "B"}
MergeExecs == {<<PFoo>>, <<PNginx>>}
MergeVersions == {V118, V19}
MergeLookups == {<<>>, <<"CVE-1">>}

EntryVersions(mode) ==
    IF mode = "chroot_combine" THEN MergeVersions ELSE MergeVersions \cup {VEmpty}
Entries(mode) ==
    [Package : MergeNames, ServiceName : {"nginx.service"}, ExecutablePath : MergeExecs,
     ExecutionTime : {TimeStr}, Version : EntryVersions(mode)]

InitMerge ==
    /\ ctx \in [mode : {"merge", "chroot_combine", "static_combine"},
                volume_path : {RootVol}, cve_analysis : {FALSE}]
    /\ db = <<>>
    /\ units = <<>>
    /\ disk = {}
    /\ services = <<>>
    /\ result = AnalysisResult
    /\ idx = 0
    /\ entries \in IF ctx.mode = "merge" THEN {<<>>}
                   ELSE SeqsUpTo(Entries(ctx.mode), MaxEntries)
    \* static_mode_entry_service.combine_entries raises on an empty list
    /\ (ctx.mode = "static_combine" => entries # <<>>)
    /\ combined = <<>>
    /\ pc = IF ctx.mode = "merge" THEN "merge" ELSE "combine"
    /\ NotScanIdle

\* one pass of the owner loop of _analyze_static_service, on any owner
MergeStep ==
    /\ pc = "merge"
    /\ \E pkg_name \in MergeNames, version \in MergeVersions, ex \in MergeExecs,
          enrich \in BOOLEAN, cves \in MergeLookups :
            result' = MergeOwner(result, ServiceMetadata("nginx.service", ex),
                                 pkg_name, version, enrich, TRUE, cves)
    /\ UNCHANGED <<ctx, db, units, disk, services, idx, pc, entries, combined>>
    /\ UNCHANGED NotScanVars

\* an enrichment pass over one package of the graph
EnrichStep ==
    /\ pc = "merge"
    /\ \E i \in 1..Len(result.packages), available \in BOOLEAN, cves \in MergeLookups :
            result' = [result EXCEPT
                          !.packages[i] = EnrichWithCve(result.packages[i], available, cves)]
    /\ UNCHANGED <<ctx, db, units, disk, services, idx, pc, entries, combined>>
    /\ UNCHANGED NotScanVars

\* combine_entries, one entry of its loop
CombineStep ==
    /\ pc = "combine"
    /\ idx < Len(entries)
    /\ combined' = CombineEntry(ctx.mode, combined, entries[idx + 1])
    /\ idx' = idx + 1
    /\ UNCHANGED <<ctx, db, units, disk, services, result, pc, entries>>
    /\ UNCHANGED NotScanVars

\* combine_entries returns list(package_dict.values())
CombineReturn ==
    /\ pc = "combine"
    /\ idx = Len(entries)
    /\ pc' = "combined"
    /\ UNCHANGED <<ctx, db, units, disk, services, result, idx, entries, combined>>
    /\ UNCHANGED NotScanVars

NextMerge == MergeStep \/ EnrichStep \/ CombineStep \/ CombineReturn

SpecMerge == InitMerge /\ [][NextMerge]_vars

-----------------------------------------------------------------------------
(* Claims about ownership matching and the result graph (Spec). *)

\* a path as the volume sees it, root-relative: the volume prefix, when the
\* path carries it, and the leading slash removed
RootRelative(ep, volume_path) ==
    LET vc == Components(volume_path)
        pc_ == Components(ep)
    IN  IF Len(pc_) >= Len(vc) /\ SubSeq(pc_, 1, Len(vc)) = vc
        THEN Join(SubSeq(pc_, Len(vc) + 1, Len(pc_)), Slash)
        ELSE Join(pc_, Slash)

\* the packages whose manifest holds an entry equal to one of the paths
ExactOwners(stanzas, exec_paths, volume_path) ==
    {stanzas[k].name : k \in
        {i \in 1..Len(stanzas) :
            \E e \in 1..Len(exec_paths), f \in 1..Len(stanzas[i].files) :
                Tail(stanzas[i].files[f]) = RootRelative(exec_paths[e], volume_path)}}

ManifestScanModes == {"apt_static_service", "pacman_static_service"}
InitSystemModes == {"apt_static_service", "apk_static"}

\* C1: manifest-scan matching makes a package an owner only if its manifest
\* holds an entry exactly equal to the normalized query path: every package the
\* scan recorded as an owner has such an entry for an executable of a service.
C1_ExactMatchOnly ==
    (pc = "done" /\ ctx.mode \in ManifestScanModes) =>
        \A i \in 1..Len(result.packages) :
            \E k \in 1..Len(services) :
                result.packages[i].name
                    \in ExactOwners(db, services[k].executables, ctx.volume_path)

\* C2: a service of the init-system backend that no package owns (an empty
\* executable list included) is in the final graph with associatedPackage =
\* null and its raw executable list.
C2_OrphanRetained ==
    (pc = "done" /\ ctx.mode \in InitSystemModes) =>
        \A k \in 1..Len(services) :
            ExactOwners(db, services[k].executables, ctx.volume_path) = {} =>
                \E j \in 1..Len(result.services) :
                    /\ result.services[j].name = services[k].name
                    /\ result.services[j].associated_package = None
                    /\ result.services[j].executables = services[k].executables

\* C3: every service of a result graph whose associatedPackage is not null
\* names a package record of the same graph.
C3_AssociatedPackageInGraph ==
    \A j \in 1..Len(result.services) :
        result.services[j].associated_package # None =>
            HasPackage(result, result.services[j].associated_package)

\* C4: when two or more packages' manifests hold the same executable, every
\* one of them stays associated with the service in the output.
C4_CoOwnersKept ==
    (pc = "done" /\ ctx.mode \in InitSystemModes /\ ctx.volume_path = RootVol) =>
        \A k \in 1..Len(services) :
            LET owners == ExactOwners(db, services[k].executables, ctx.volume_path)
            IN  Cardinality(owners) >= 2 =>
                    \A n \in owners :
                        \E j \in 1..Len(result.services) :
                            /\ result.services[j].name = services[k].name
                            /\ result.services[j].associated_package = n

\* C8: no two package records of a result graph have the same name.
C8_UniquePackageNames == DistinctNames(result.packages)

\* C9: after any sequence of service merges no two service records of a graph
\* share a name, and the record of a name holds the executables of every
\* merged record of that name.
C9_OneRecordPerService ==
    /\ DistinctNames(result.services)
    /\ ctx.mode \in InitSystemModes \cup {"pacman_static_service"} =>
          \A j \in 1..Len(result.services), k \in 1..Len(services) :
              result.services[j].name = services[k].name =>
                  SeqToSet(services[k].executables)
                      \subseteq SeqToSet(result.services[j].executables)

NginxStanza == [name |-> "nginx", version |-> V118, files |-> <<PNginx>>]
NginxUnit ==
    [name |-> "nginx.service", lines |-> <<ExecLine("ExecStart", PNginx \o s_args)>>]

\* C10: for a volume, mounted at any root, with the dpkg stanza nginx 1.18.0-6,
\* the manifest nginx.list listing /usr/sbin/nginx and the unit nginx.service
\* with ExecStart=/usr/sbin/nginx -g daemon off;, the static service pipeline
\* yields exactly one package record {nginx, 1.18.0-6} and exactly one service
\* record {nginx.service, associatedPackage nginx, executables [/usr/sbin/nginx]}.
C10_EndToEndNginx ==
    (/\ pc = "done"
     /\ ctx.mode = "apt_static_service"
     /\ db = <<NginxStanza>>
     /\ units = <<NginxUnit>>) =>
        /\ Len(result.packages) = 1
        /\ result.packages[1].name = "nginx"
        /\ result.packages[1].version = V118
        /\ Len(result.services) = 1
        /\ result.services[1].name = "nginx.service"
        /\ result.services[1].associated_package = "nginx"
        /\ result.services[1].executables = <<PNginx>>

-----------------------------------------------------------------------------
(* Claims about merging (SpecMerge). *)

NoDuplicates(l) == \A i, j \in 1..Len(l) : l[i] = l[j] => i = j

\* what is recorded for record i is still recorded for it after the step
PackageKept(i) ==
    /\ i <= Len(result'.packages)
    /\ result'.packages[i].name = result.packages[i].name
    /\ SeqToSet(result.packages[i].files) \subseteq SeqToSet(result'.packages[i].files)
    /\ result.packages[i].version # VEmpty =>
          result'.packages[i].version = result.packages[i].version
    /\ SeqToSet(result.packages[i].vulnerabilities)
          \subseteq SeqToSet(result'.packages[i].vulnerabilities)

ServiceKept(i) ==
    /\ i <= Len(result'.services)
    /\ result'.services[i].name = result.services[i].name
    /\ SeqToSet(result.services[i].executables)
          \subseteq SeqToSet(result'.services[i].executables)
    /\ result.services[i].version # VEmpty =>
          result'.services[i].version = result.services[i].version

\* C5: merging is monotonic: after any merge or enrichment step every
\* executable, every non-empty version and every vulnerability recorded for a
\* package or service before the step is still recorded; an enrichment pass
\* adds to the vulnerabilities of a package and never replaces them.
C5_MonotonicMerge ==
    [][ /\ \A i \in 1..Len(result.packages) : PackageKept(i)
        /\ \A i \in 1..Len(result.services) : ServiceKept(i) ]_vars

\* C6: merging the same package record twice gives the file set of merging it
\* once: no file entry appears twice, no second package record appears, and
\* combining an entry that repeats the one before it leaves the combined
\* executable list as it was.
C6_IdempotentMerge ==
    /\ DistinctNames(result.packages)
    /\ \A i \in 1..Len(result.packages) : NoDuplicates(result.packages[i].files)
    /\ \A i, j \in 1..Len(combined) : combined[i].Package = combined[j].Package => i = j
    /\ \A i \in 1..Len(combined) : NoDuplicates(combined[i].ExecutablePath)

\* a version once recorded for a graph package stays
GraphVersionKept ==
    \A i \in 1..Len(result.packages) :
        result.packages[i].version # VEmpty =>
            /\ i <= Len(result'.packages)
            /\ result'.packages[i].version = result.packages[i].version

\* a version once recorded for a combined entry stays
CombinedVersionKept ==
    \A i \in 1..Len(combined) :
        combined[i].Version # VEmpty =>
            /\ i <= Len(combined')
            /\ combined'[i].Version = combined[i].Version

-----------------------------------------------------------------------------
(* Path resolution: _extract_executable_paths on an executable that may be a *)
(* symbolic link.  The volume is the host root, the entries of the          *)
(* executable's directory are numbered, entry 1 is the path the unit file   *)
(* names, and a link's target is an entry of the same directory.            *)

File == [kind |-> "file", target |-> 0]
Absent == [kind |-> "absent", target |-> 0]
Link(k) == [kind |-> "link", target |-> k]

\* a directory holding a chain 1 -> 2 -> ... -> len whose last entry is e
ChainFs(len, e) ==
    [i \in 1..MaxChain |-> IF i < len THEN Link(i + 1) ELSE IF i = len THEN e ELSE Absent]
ChainEnds(len) == {File, Absent} \cup {Link(k) : k \in 1..len}
FileSystems == UNION {{ChainFs(len, e) : e \in ChainEnds(len)} : len \in 1..MaxChain}

\* the entry a stat of entry n ends at, following links; 0 when the walk does
\* not end (ELOOP).  A walk over more links than there are entries is a cycle.
RECURSIVE Stat(_, _, _)
Stat(f, n, fuel) ==
    IF f[n].kind # "link" THEN n
    ELSE IF fuel = 0 THEN 0
    ELSE Stat(f, f[n].target, fuel - 1)

\* os.path.exists: the stat succeeds
Exists(f, n) ==
    /\ Stat(f, n, Len(f)) # 0
    /\ f[Stat(f, n, Len(f))].kind = "file"

\* os.path.islink
IsLink(f, n) == f[n].kind = "link"

InitResolve ==
    /\ fs \in FileSystems
    /\ node = 1
    /\ seen = {}
    /\ rpc = "start"
    /\ paths = <<>>
    /\ NotResolveIdle

\* if os.path.exists(potential_path): ... elif os.path.exists(path): ...
\* (the same file when the volume is the host root)
ExtractStart ==
    /\ rpc = "start"
    /\ IF Exists(fs, 1)
       THEN IF IsLink(fs, 1)
            THEN rpc' = "realpath" /\ paths' = paths
            ELSE rpc' = "done" /\ paths' = Append(paths, 1)
       ELSE rpc' = "done" /\ paths' = paths
    /\ UNCHANGED <<fs, node, seen>>
    /\ UNCHANGED NotResolveVars

\* os.path.realpath follows one link
RealpathHop ==
    /\ rpc = "realpath"
    /\ IsLink(fs, node)
    /\ node \notin seen
    /\ seen' = seen \cup {node}
    /\ node' = fs[node].target
    /\ UNCHANGED <<fs, rpc, paths>>
    /\ UNCHANGED NotResolveVars

\* os.path.realpath returns: the entry reached, or, on a link it has already
\* followed, that link unresolved; the path is appended
RealpathReturn ==
    /\ rpc = "realpath"
    /\ (~IsLink(fs, node) \/ node \in seen)
    /\ paths' = Append(paths, node)
    /\ rpc' = "done"
    /\ UNCHANGED <<fs, node, seen>>
    /\ UNCHANGED NotResolveVars

NextResolve == ExtractStart \/ RealpathHop \/ RealpathReturn

SpecResolve == InitResolve /\ [][NextResolve]_vars

(* Claims about path resolution (SpecResolve). *)

\* the hop bound of the specification
HopBound == 8

\* the number of links between entry n and the end of its chain
RECURSIVE Hops(_, _, _)
Hops(f, n, fuel) ==
    IF f[n].kind # "link" \/ fuel = 0 THEN 0 ELSE 1 + Hops(f, f[n].target, fuel - 1)

Cyclic(f) == Stat(f, 1, Len(f)) = 0

\* C11: a chain of at most 8 links ending at a regular file resolves to that
\* file; a chain of more than 8 links, or a cycle of links, resolves to
\* nothing (null).
C11_BoundedSymlinkHops ==
    rpc = "done" =>
        /\ (~Cyclic(fs) /\ Hops(fs, 1, Len(fs)) <= HopBound /\ Exists(fs, 1)) =>
              paths = <<Stat(fs, 1, Len(fs))>>
        /\ (Cyclic(fs) \/ Hops(fs, 1, Len(fs)) > HopBound) => paths = <<>>

-----------------------------------------------------------------------------
(* Claims about executables absent from the volume (Spec). *)

\* the absolute paths the Exec lines of a unit file name
NamedExecutables(unit) == PacmanExtractExecutablePaths(unit.lines)

\* C12: an executable a service names stays in the service's executable list
\* and is matched against the package manifests whether or not the file
\* exists on the volume: a package whose manifest lists it is in the graph,
\* and so is the service, with the path among its executables.
C12_AbsentExecutableKept ==
    (pc = "done" /\ ctx.mode = "apt_chroot" /\ ctx.volume_path = RootVol) =>
        \A i \in 1..Len(units) :
            \A e \in 1..Len(NamedExecutables(units[i])) :
                \A k \in 1..Len(db) :
                    NamedExecutables(units[i])[e] \in SeqToSet(db[k].files) =>
                        /\ HasPackage(result, db[k].name)
                        /\ \E j \in 1..Len(result.services) :
                              /\ result.services[j].name = units[i].name
                              /\ NamedExecutables(units[i])[e]
                                    \in SeqToSet(result.services[j].executables)

-----------------------------------------------------------------------------
(* Version normalisation: CVEAnalyzer.normalize_version. *)

\* re.sub(r'^\d+:', '', version)
StripEpoch(v) ==
    LET d == DigitRun(v)
    IN  IF d # <<>> /\ Len(v) > Len(d) /\ v[Len(d) + 1] = ":"
        THEN SubSeq(v, Len(d) + 2, Len(v))
        ELSE v

\* (?:\.\d+)* from position n: the position after the last group
RECURSIVE DotGroups(_, _)
DotGroups(v, n) ==
    IF n + 1 <= Len(v) /\ v[n + 1] = "." /\ DigitRun(SubSeq(v, n + 2, Len(v))) # <<>>
    THEN DotGroups(v, n + 1 + Len(DigitRun(SubSeq(v, n + 2, Len(v)))))
    ELSE n

\* (?:p\d+)? from position n
PSuffix(v, n) ==
    IF n + 1 <= Len(v) /\ v[n + 1] = "p" /\ DigitRun(SubSeq(v, n + 2, Len(v))) # <<>>
    THEN n + 1 + Len(DigitRun(SubSeq(v, n + 2, Len(v))))
    ELSE n

\* re.match(r'^(\d+(?:\.\d+)*(?:p\d+)?)', version): the length of group 1, 0
\* when there is no match
CoreMatchLen(v) ==
    IF DigitRun(v) = <<>> THEN 0 ELSE PSuffix(v, DotGroups(v, Len(DigitRun(v))))

\* '-' in version
HasDash(v) == \E i \in 1..Len(v) : v[i] = "-"

\* as normalize_version, with the (?:p\d+)? group left out of the pattern
normalize_version_NoPatch(v) ==
    IF v = <<>> THEN <<>>
    ELSE LET w == StripEpoch(v)
         IN  IF DigitRun(w) # <<>> THEN SubSeq(w, 1, DotGroups(w, Len(DigitRun(w))))
             ELSE IF HasDash(w) THEN SplitOn(w, "-", <<>>)[1]
             ELSE w

\* CVEAnalyzer.normalize_version
normalize_version(v) ==
    IF v = <<>> THEN <<>>
    ELSE LET w == StripEpoch(v)
         IN  IF CoreMatchLen(w) > 0 THEN SubSeq(w, 1, CoreMatchLen(w))
             ELSE IF HasDash(w) THEN SplitOn(w, "-", <<>>)[1]
             ELSE w

\* "1:8.2p1-4ubuntu0.13", "245.4-4ubuntu3.21", "2.0.9"
VOpenssh ==
    <<"1", ":", "8", ".", "2", "p", "1", "-", "4", "u", "b", "u", "n", "t", "u",
      "0", ".", "1", "3">>
VSystemd ==
    <<"2", "4", "5", ".", "4", "-", "4", "u", "b", "u", "n", "t", "u", "3", ".", "2", "1">>
VPlain == <<"2", ".", "0", ".", "9">>

VersionChars == {"1", ".", "p", "-", ":", "u"}
VersionInputs == SeqsUpTo(VersionChars, MaxVersionLen) \cup {VOpenssh, VSystemd, VPlain}

InitVersion ==
    /\ version_str \in VersionInputs
    /\ normalized = <<>>
    /\ vpc = "call"
    /\ NotVersionIdle

NormalizeVersion ==
    /\ vpc = "call"
    /\ normalized' = normalize_version(version_str)
    /\ vpc' = "returned"
    /\ UNCHANGED version_str
    /\ UNCHANGED NotVersionVars

NextVersion == NormalizeVersion

SpecVersion == InitVersion /\ [][NextVersion]_vars

(* Claims about version normalisation (SpecVersion). *)

AllDigits(s) == \A i \in 1..Len(s) : IsDigit(s[i])

\* s is one or more runs of digits separated by single dots
IsDottedNumber(s) ==
    \A i \in 1..Len(SplitOn(s, ".", <<>>)) :
        /\ SplitOn(s, ".", <<>>)[i] # <<>>
        /\ AllDigits(SplitOn(s, ".", <<>>)[i])

\* s has the form \d+(\.\d+)*(p\d+)?
IsCoreVersion(s) ==
    LET ps == SplitOn(s, "p", <<>>)
    IN  /\ Len(ps) \in {1, 2}
        /\ IsDottedNumber(ps[1])
        /\ Len(ps) = 2 => (ps[2] # <<>> /\ AllDigits(ps[2]))

\* v without its epoch: what follows the first ':' when only digits, and at
\* least one, precede it
WithoutEpoch(v) ==
    IF \E k \in 2..Len(v) : v[k] = ":" /\ AllDigits(SubSeq(v, 1, k - 1))
    THEN LET k == CHOOSE k \in 2..Len(v) : v[k] = ":" /\ AllDigits(SubSeq(v, 1, k - 1))
         IN  SubSeq(v, k + 1, Len(v))
    ELSE v

\* the prefixes of w of the form \d+(\.\d+)*(p\d+)?, by length
CorePrefixes(w) == {n \in 1..Len(w) : IsCoreVersion(SubSeq(w, 1, n))}

\* w up to its first '-', all of w when it has none
BeforeDash(w) ==
    IF \E k \in 1..Len(w) : w[k] = "-"
    THEN LET k == CHOOSE k \in 1..Len(w) :
                      w[k] = "-" /\ \A j \in 1..(k - 1) : w[j] # "-"
         IN  SubSeq(w, 1, k - 1)
    ELSE w

-----------------------------------------------------------------------------
(* Package enumeration: APTAnalyzer._extract_version over a dpkg status file *)
(* whose stanzas may be malformed.                                          *)

s_Package == <<"P", "a", "c", "k", "a", "g", "e", ":">>
s_Version == <<"V", "e", "r", "s", "i", "o", "n", ":">>
ColonSpace == <<":", " ">>

\* str.split(sep) for a separator of several characters
RECURSIVE SplitStr(_, _, _)
SplitStr(s, sep, acc) ==
    IF s = <<>> THEN <<acc>>
    ELSE IF StartsWith(s, sep)
         THEN <<acc>> \o SplitStr(SubSeq(s, Len(sep) + 1, Len(s)), sep, <<>>)
         ELSE SplitStr(Tail(s), sep, Append(acc, Head(s)))

\* the lines of a stanza
GoodStanza(n, v) == <<s_Package \o <<" ">> \o n, s_Version \o <<" ">> \o v>>
\* a Package: line without a name, a Version: line without a value, a stanza
\* without a Package: line
NoNameStanza == <<s_Package \o <<" ">>, s_Version \o <<" ">> \o V19>>
NoVersionStanza(n) == <<s_Package \o <<" ">> \o n, s_Version>>
NoPackageStanza == <<s_Version \o <<" ">> \o V19>>

StatusStanzas ==
    {GoodStanza(<<"A">>, V118), GoodStanza(<<"A">>, V19), GoodStanza(<<"B">>, V118),
     NoNameStanza, NoVersionStanza(<<"B">>), NoPackageStanza}

\* the lines of the file: each stanza followed by an empty line
RECURSIVE StatusLines(_)
StatusLines(stanzas) ==
    IF stanzas = <<>> THEN <<>>
    ELSE Head(stanzas) \o <<<<>>>> \o StatusLines(Tail(stanzas))

\* versions[k] = v
DictSet(d, k, v) ==
    IF \E i \in 1..Len(d) : d[i].key = k
    THEN [i \in 1..Len(d) |-> IF d[i].key = k THEN [key |-> k, value |-> v] ELSE d[i]]
    ELSE Append(d, [key |-> k, value |-> v])

\* whether the body of the line loop raises on this line: split(': ')[1] on a
\* line without ': '
LineRaises(line, pkg) ==
    /\ Len(SplitStr(line, ColonSpace, <<>>)) < 2
    /\ \/ StartsWith(line, s_Package)
       \/ (StartsWith(line, s_Version) /\ pkg # <<>>)

InitStatus ==
    /\ status_file \in [readable : BOOLEAN, stanzas : SeqsUpTo(StatusStanzas, MaxStanzas)]
    /\ (~status_file.readable => status_file.stanzas = <<>>)
    /\ lineno = 0
    /\ current_pkg = <<>>
    /\ versions = <<>>
    /\ xpc = "open"
    /\ NotStatusIdle

\* with open(dpkg_status_path, ...): a file that cannot be opened raises, and
\* the handler returns {}
OpenStatus ==
    /\ xpc = "open"
    /\ xpc' = IF status_file.readable THEN "read" ELSE "failed"
    /\ UNCHANGED <<status_file, lineno, current_pkg, versions>>
    /\ UNCHANGED NotStatusVars

\* one pass of `for line in f`
ReadStatusLine ==
    /\ xpc = "read"
    /\ lineno < Len(StatusLines(status_file.stanzas))
    /\ LET line == Strip(StatusLines(status_file.stanzas)[lineno + 1])
           parts == SplitStr(line, ColonSpace, <<>>)
       IN  IF LineRaises(line, current_pkg)
           THEN /\ xpc' = "failed"
                /\ versions' = <<>>
                /\ UNCHANGED current_pkg
           ELSE /\ xpc' = xpc
                /\ IF StartsWith(line, s_Package)
                   THEN /\ current_pkg' = parts[2]
                        /\ versions' = DictSet(versions, parts[2], <<>>)
                   ELSE IF StartsWith(line, s_Version) /\ current_pkg # <<>>
                   THEN /\ versions' = DictSet(versions, current_pkg, parts[2])
                        /\ UNCHANGED current_pkg
                   ELSE IF line = <<>> /\ current_pkg # <<>>
                   THEN /\ current_pkg' = <<>>
                        /\ UNCHANGED versions
                   ELSE UNCHANGED <<current_pkg, versions>>
    /\ lineno' = lineno + 1
    /\ UNCHANGED status_file
    /\ UNCHANGED NotStatusVars

\* return versions
ReturnVersions ==
    /\ xpc = "read"
    /\ lineno = Len(StatusLines(status_file.stanzas))
    /\ xpc' = "returned"
    /\ UNCHANGED <<status_file, lineno, current_pkg, versions>>
    /\ UNCHANGED NotStatusVars

NextStatus == OpenStatus \/ ReadStatusLine \/ ReturnVersions

SpecStatus == InitStatus /\ [][NextStatus]_vars

(* Claims about package enumeration (SpecStatus). *)

\* stanza k of the file is well formed, and no later stanza names its package
WellFormed(k) ==
    \E n \in {<<"A">>, <<"B">>}, v \in {V118, V19} :
        /\ status_file.stanzas[k] = GoodStanza(n, v)
        /\ \A j \in (k + 1)..Len(status_file.stanzas) :
              \A w \in {V118, V19} :
                  /\ status_file.stanzas[j] # GoodStanza(n, w)
                  /\ status_file.stanzas[j] # NoVersionStanza(n)

\* C14: when the enumeration has ended, every well-formed stanza of the
\* database is returned with its version, whatever malformed stanzas the
\* database also holds; a database that cannot be read gives the empty result.
C14_MalformedRecordSkipped ==
    xpc \in {"returned", "failed"} =>
        /\ \A k \in 1..Len(status_file.stanzas) :
              WellFormed(k) =>
                  \E i \in 1..Len(versions) :
                      status_file.stanzas[k] = GoodStanza(versions[i].key, versions[i].value)
        /\ ~status_file.readable => versions = <<>>

-----------------------------------------------------------------------------
(* The target volume during a run: main, DockerSource.export_container,     *)
(* analyze_static, analyze_chroot and save_analysis_result, as far as they   *)
(* create files.  File names are relative to the target root.               *)

SourceFiles == {"usr/sbin/nginx", "var/lib/dpkg/status", "etc/systemd/system/nginx.service"}

\* where --save-file and the working directory lie
SaveFiles == {"", "relative", "under-root"}
Cwds == {"outside", "under-root"}

\* the files save_analysis_result writes that lie under the target root:
\* output_path and output_path + ".cdx.json"
OutputFiles(a) ==
    IF a.save_file = "under-root" \/ (a.save_file = "relative" /\ a.cwd = "under-root")
    THEN {"out.json", "out.json.cdx.json"}
    ELSE {}

\* the boot plot analyze_chroot writes to SVG/bootup.svg of the working directory
SvgFiles(a) == IF a.cwd = "under-root" THEN {"SVG/bootup.svg"} ELSE {}

InitVolume ==
    /\ args \in [source : {"volume", "docker"}, analysis_mode : {"static", "chroot"},
                 save_file : SaveFiles, cwd : Cwds, files : SUBSET SourceFiles]
    /\ (args.source = "docker" => args.cwd = "outside")
    /\ volume = IF args.source = "volume" THEN args.files ELSE {}
    /\ stage = "prepare"
    /\ NotVolumeIdle

\* main with --volume-path: the mounted volume is the target
UseVolumePath ==
    /\ stage = "prepare"
    /\ args.source = "volume"
    /\ stage' = "analyze"
    /\ UNCHANGED <<args, volume>>
    /\ UNCHANGED NotVolumeVars

\* DockerSource.export_container: the container's files are unpacked into the
\* export directory, then .docker_info.json is written into its root
ExportContainer ==
    /\ stage = "prepare"
    /\ args.source = "docker"
    /\ volume' = args.files \cup {".docker_info.json"}
    /\ stage' = "analyze"
    /\ UNCHANGED args
    /\ UNCHANGED NotVolumeVars

\* main, step 3, for --docker without --volume-path: building the context
\* raises on os.path.abspath(None), and main reports a fatal error
ContextFails ==
    /\ stage = "analyze"
    /\ args.source = "docker"
    /\ stage' = "done"
    /\ UNCHANGED <<args, volume>>
    /\ UNCHANGED NotVolumeVars

\* analyze_static, ending in _save_output
AnalyzeStatic ==
    /\ stage = "analyze"
    /\ args.analysis_mode = "static"
    /\ args.source = "volume"
    /\ volume' = volume \cup OutputFiles(args)
    /\ stage' = "done"
    /\ UNCHANGED args
    /\ UNCHANGED NotVolumeVars

\* analyze_chroot: the boot plot, then _analyze_chroot_services and _save_output
AnalyzeChroot ==
    /\ stage = "analyze"
    /\ args.analysis_mode = "chroot"
    /\ args.source = "volume"
    /\ volume' = volume \cup SvgFiles(args) \cup OutputFiles(args)
    /\ stage' = "done"
    /\ UNCHANGED args
    /\ UNCHANGED NotVolumeVars

NextVolume ==
    UseVolumePath \/ ExportContainer \/ ContextFails \/ AnalyzeStatic \/ AnalyzeChroot

SpecVolume == InitVolume /\ [][NextVolume]_vars

(* Claims about the target volume (SpecVolume). *)

\* C15: from input-source preparation to output, the files under the target
\* root are those of the source (the mounted volume, or the container that was
\* exported): no step creates or deletes one.
C15_VolumeReadOnly ==
    stage # "prepare" => volume = args.files

-----------------------------------------------------------------------------
(* Concurrent merges: the body of the owner loop of _analyze_static_service  *)
(* run by two invocations on one AnalysisResult.  The code takes no lock;    *)
(* an invocation can be preempted between any two of its reads and writes   *)
(* of the shared lists.                                                     *)

ThreadIds == {1, 2}

MergeArgs == [pkg_name : {"A", "B"}, ep : {PFoo, PNginx}, svc_name : ServiceNames]

InitConcurrent ==
    /\ graph = AnalysisResult
    /\ threads \in [ThreadIds -> [arg : MergeArgs, at : {"lookup"}, existing_pkg : {0}]]
    /\ NotConcurrentIdle

\* existing_pkg = next((p for p in result.packages if p.name == pkg_name), None):
\* the record found, as its position in result.packages; 0 is None
LookupPackage(t) ==
    /\ threads[t].at = "lookup"
    /\ threads' = [threads EXCEPT
                      ![t].existing_pkg =
                          IF HasPackage(graph, threads[t].arg.pkg_name)
                          THEN FirstPackage(graph, threads[t].arg.pkg_name) ELSE 0,
                      ![t].at = "create"]
    /\ UNCHANGED graph
    /\ UNCHANGED NotConcurrentVars

\* if not existing_pkg: ... result.packages.append(existing_pkg)
CreatePackage(t) ==
    /\ threads[t].at = "create"
    /\ IF threads[t].existing_pkg = 0
       THEN /\ graph' = [graph EXCEPT !.packages =
                            Append(graph.packages,
                                   PackageMetadata(threads[t].arg.pkg_name, V118))]
            /\ threads' = [threads EXCEPT ![t].existing_pkg = Len(graph.packages) + 1,
                                          ![t].at = "files"]
       ELSE /\ threads' = [threads EXCEPT ![t].at = "files"]
            /\ UNCHANGED graph
    /\ UNCHANGED NotConcurrentVars

\* the file loop, for the one executable of the service: the test and the
\* append are on the record the invocation holds
AddFile(t) ==
    /\ threads[t].at = "files"
    /\ graph' = [graph EXCEPT !.packages[threads[t].existing_pkg].files =
                    AddFiles(graph.packages[threads[t].existing_pkg].files,
                             <<threads[t].arg.ep>>)]
    /\ threads' = [threads EXCEPT ![t].at = "service"]
    /\ UNCHANGED NotConcurrentVars

\* if not any(s.name == svc.name for s in result.services)
CheckService(t) ==
    /\ threads[t].at = "service"
    /\ threads' = [threads EXCEPT
                      ![t].at = IF HasService(graph, threads[t].arg.svc_name)
                                THEN "done" ELSE "append"]
    /\ UNCHANGED graph
    /\ UNCHANGED NotConcurrentVars

\* result.services.append(svc)
AppendService(t) ==
    /\ threads[t].at = "append"
    /\ graph' = [graph EXCEPT !.services =
                    Append(graph.services,
                           [ServiceMetadata(threads[t].arg.svc_name, <<threads[t].arg.ep>>)
                               EXCEPT !.associated_package = threads[t].arg.pkg_name,
                                      !.version = V118])]
    /\ threads' = [threads EXCEPT ![t].at = "done"]
    /\ UNCHANGED NotConcurrentVars

NextConcurrent ==
    \E t \in ThreadIds :
        \/ LookupPackage(t)
        \/ CreatePackage(t)
        \/ AddFile(t)
        \/ CheckService(t)
        \/ AppendService(t)

SpecConcurrent == InitConcurrent /\ [][NextConcurrent]_vars

(* Claims about concurrent merges (SpecConcurrent). *)

\* the merge of invocation t, run alone on res
MergeOf(res, t) ==
    MergeOwner(res, ServiceMetadata(threads[t].arg.svc_name, <<threads[t].arg.ep>>),
               threads[t].arg.pkg_name, V118, FALSE, FALSE, <<>>)

\* a graph without the order of its lists: its records, files as sets
Records(res) ==
    [packages |-> {[name |-> res.packages[i].name,
                    files |-> SeqToSet(res.packages[i].files)] :
                       i \in 1..Len(res.packages)},
     services |-> {res.services[i] : i \in 1..Len(res.services)},
     n_packages |-> Len(res.packages),
     n_services |-> Len(res.services)]

\* C16: when two merges into one graph have both finished, the graph is the
\* one some sequential order of the two gives: nothing added by either is
\* lost, and a package name has one record.
C16_ConcurrentMergeSerializable ==
    (\A t \in ThreadIds : threads[t].at = "done") =>
        \/ Records(graph) = Records(MergeOf(MergeOf(AnalysisResult, 1), 2))
        \/ Records(graph) = Records(MergeOf(MergeOf(AnalysisResult, 2), 1))

(***************************************************************************)
(* Init-system backends: get_all_services and get_startup_services of      *)
(* systemd, SysV init and OpenRC on one root.                              *)
(***************************************************************************)

dot_service == <<".", "s", "e", "r", "v", "i", "c", "e">>

EndsWith(s, suf) ==
    Len(s) >= Len(suf) /\ SubSeq(s, Len(s) - Len(suf) + 1, Len(s)) = suf

Backends == {"systemd", "sysv", "openrc"}

\* search_paths of systemd, etc/init.d of the other two
ServiceDirs(b) ==
    IF b = "systemd"
    THEN <<"etc/systemd/system", "usr/lib/systemd/system", "lib/systemd/system">>
    ELSE <<"etc/init.d">>

\* wants_dirs, target_runlevels, runlevels
RunLevelDirs(b) ==
    CASE b = "systemd" -> <<"etc/systemd/system/multi-user.target.wants",
                            "etc/systemd/system/graphical.target.wants",
                            "etc/systemd/system/sysinit.target.wants">>
      [] b = "sysv"    -> <<"etc/rc2.d", "etc/rc3.d", "etc/rc4.d", "etc/rc5.d">>
      [] b = "openrc"  -> <<"etc/runlevels/boot", "etc/runlevels/default">>

FsPath(d, n) == [dir |-> d, name |-> n]

\* names found on the roots the backends are run on
NameA == <<"a">>
NameB == <<"b">>
NameAd == <<"a", "d">>
LinkNames(b) ==
    CASE b = "systemd" -> {NameA \o dot_service, NameB \o dot_service,
                           <<"a", ".", "t", "i", "m", "e", "r">>}
      [] b = "sysv"    -> {<<"S", "0", "1">> \o NameA, <<"S", "0", "2">> \o NameB,
                           <<"K", "0", "1">> \o NameA}
      [] b = "openrc"  -> {NameA, NameB}
FilePool(b) ==
    CASE b = "systemd" -> {FsPath("lib/systemd/system", NameA \o dot_service),
                           FsPath("etc/systemd/system", NameB \o dot_service),
                           FsPath("opt", NameA \o dot_service)}
      [] b = "sysv"    -> {FsPath("etc/init.d", NameA), FsPath("etc/init.d", NameAd),
                           FsPath("opt", NameA)}
      [] b = "openrc"  -> {FsPath("etc/init.d", NameA), FsPath("etc/init.d", NameB),
                           FsPath("opt", NameA)}

\* an entry of a run-level directory: a regular file, or a symbolic link
\* to target (a regular file of the root, or nothing)
RunLevelEntries(b) ==
    [name : LinkNames(b), islink : BOOLEAN, target : FilePool(b)]

\* os.listdir of the run-level directories, in the order the loops visit
\* them: the i-th entry lies in directory i (modulo their number)
EntryDir(b, i) == RunLevelDirs(b)[((i - 1) % Len(RunLevelDirs(b))) + 1]

Listings(b) ==
    {l \in SeqsUpTo(RunLevelEntries(b), MaxLinks) :
        /\ \A i \in 1..Len(l) : ~l[i].islink =>
               l[i].target = CHOOSE p \in FilePool(b) : TRUE
        /\ \A i, j \in 1..Len(l) :
               (i # j /\ EntryDir(b, i) = EntryDir(b, j)) => l[i].name # l[j].name}

\* os.path.exists: a regular file, or a run-level entry that is a file or
\* a link to a regular file
FsExists(t, b, p) ==
    \/ p \in t.files
    \/ \E i \in 1..Len(t.listing) :
           /\ FsPath(EntryDir(b, i), t.listing[i].name) = p
           /\ (t.listing[i].islink => t.listing[i].target \in t.files)

\* os.listdir(dir) restricted to regular files
FilesOf(t, d) == {p.name : p \in {q \in t.files : q.dir = d}}

\* SystemdAnalyzer._check_status
check_status(t, service_name) ==
    IF \E i \in 1..Len(RunLevelDirs("systemd")) :
           FsExists(t, "systemd", FsPath(RunLevelDirs("systemd")[i], service_name))
    THEN "enabled" ELSE "disabled"

\* the names SystemdAnalyzer.get_all_services lists: *.service of the
\* search paths, a name once
SystemdServiceNames(t) ==
    {n \in UNION {FilesOf(t, ServiceDirs("systemd")[i]) :
                     i \in 1..Len(ServiceDirs("systemd"))} :
        EndsWith(n, dot_service)}

\* the names SysVInitAnalyzer / OpenRCAnalyzer.get_all_services list
InitDServiceNames(t) ==
    {n \in FilesOf(t, "etc/init.d") : ~StartsWith(n, <<".">>)}

InitInitSystem ==
    /\ backend \in Backends
    /\ \E fs_files \in SUBSET FilePool(backend), l \in Listings(backend) :
           tree = [files |-> fs_files, listing |-> l]
    /\ all_services = <<>>
    /\ todo = <<>>
    /\ seen_names = {}
    /\ startup_services = <<>>
    /\ ipc = "all"
    /\ NotInitSystemIdle

\* get_startup_services starts: os.listdir of the run-level directories
BeginStartup ==
    /\ todo' = [i \in 1..Len(tree.listing) |->
                   [dir |-> EntryDir(backend, i),
                    name |-> tree.listing[i].name,
                    islink |-> tree.listing[i].islink,
                    target |-> tree.listing[i].target]]
    /\ seen_names' = {}
    /\ startup_services' = <<>>
    /\ ipc' = "startup"

SystemdGetAllServices ==
    /\ ipc = "all" /\ backend = "systemd"
    /\ \E order \in Orderings(SystemdServiceNames(tree)) :
           all_services' = [i \in 1..Len(order) |->
                               [name |-> order[i],
                                status |-> check_status(tree, order[i])]]
    /\ BeginStartup
    /\ UNCHANGED <<backend, tree>>
    /\ UNCHANGED NotInitSystemVars

SysvGetAllServices ==
    /\ ipc = "all" /\ backend = "sysv"
    /\ \E order \in Orderings(InitDServiceNames(tree)) :
           all_services' = [i \in 1..Len(order) |->
                               [name |-> order[i], status |-> "unknown"]]
    /\ BeginStartup
    /\ UNCHANGED <<backend, tree>>
    /\ UNCHANGED NotInitSystemVars

OpenRCGetAllServices ==
    /\ ipc = "all" /\ backend = "openrc"
    /\ \E order \in Orderings(InitDServiceNames(tree)) :
           all_services' = [i \in 1..Len(order) |->
                               [name |-> order[i], status |-> "unknown"]]
    /\ BeginStartup
    /\ UNCHANGED <<backend, tree>>
    /\ UNCHANGED NotInitSystemVars

\* the common tail of the three loops: the fallback path when real_path
\* does not exist, and the append when the path found exists
AppendStartup(name, real_path, fallbacks) ==
    LET hits == {i \in 1..Len(fallbacks) : FsExists(tree, backend, fallbacks[i])}
        path == IF FsExists(tree, backend, real_path) THEN real_path
                ELSE IF hits = {} THEN real_path
                ELSE fallbacks[CHOOSE i \in hits : \A j \in hits : i <= j]
    IN  startup_services' =
            IF FsExists(tree, backend, path)
            THEN Append(startup_services,
                        [name |-> name, path |-> path, status |-> "enabled"])
            ELSE startup_services

\* one entry of the wants directories, SystemdAnalyzer.get_startup_services
SystemdStartupStep ==
    /\ ipc = "startup" /\ backend = "systemd" /\ todo # <<>>
    /\ LET e == Head(todo)
           link_path == FsPath(e.dir, e.name)
       IN  IF EndsWith(e.name, dot_service) /\ e.name \notin seen_names
           THEN /\ seen_names' = seen_names \cup {e.name}
                /\ AppendStartup(e.name,
                                 IF e.islink THEN e.target ELSE link_path,
                                 [i \in 1..Len(ServiceDirs("systemd")) |->
                                     FsPath(ServiceDirs("systemd")[i], e.name)])
           ELSE UNCHANGED <<seen_names, startup_services>>
    /\ todo' = Tail(todo)
    /\ UNCHANGED <<backend, tree, all_services, ipc>>
    /\ UNCHANGED NotInitSystemVars

\* one entry of etc/rc{2,3,4,5}.d, SysVInitAnalyzer.get_startup_services
SysvStartupStep ==
    /\ ipc = "startup" /\ backend = "sysv" /\ todo # <<>>
    /\ LET e == Head(todo)
           link_path == FsPath(e.dir, e.name)
           service_name == SubSeq(e.name, 4, Len(e.name))
       IN  IF StartsWith(e.name, <<"S">>) /\ service_name \notin seen_names
           THEN /\ seen_names' = seen_names \cup {service_name}
                /\ AppendStartup(service_name,
                                 IF e.islink THEN e.target ELSE link_path,
                                 <<FsPath("etc/init.d", service_name)>>)
           ELSE UNCHANGED <<seen_names, startup_services>>
    /\ todo' = Tail(todo)
    /\ UNCHANGED <<backend, tree, all_services, ipc>>
    /\ UNCHANGED NotInitSystemVars

\* one entry of etc/runlevels/{boot,default},
\* OpenRCAnalyzer.get_startup_services
OpenRCStartupStep ==
    /\ ipc = "startup" /\ backend = "openrc" /\ todo # <<>>
    /\ LET e == Head(todo)
           link_path == FsPath(e.dir, e.name)
       IN  IF e.name \notin seen_names
           THEN /\ seen_names' = seen_names \cup {e.name}
                /\ AppendStartup(e.name,
                                 IF e.islink THEN e.target ELSE link_path,
                                 <<FsPath("etc/init.d", e.name)>>)
           ELSE UNCHANGED <<seen_names, startup_services>>
    /\ todo' = Tail(todo)
    /\ UNCHANGED <<backend, tree, all_services, ipc>>
    /\ UNCHANGED NotInitSystemVars

\* return startup_services
StartupReturn ==
    /\ ipc = "startup" /\ todo = <<>>
    /\ ipc' = "done"
    /\ UNCHANGED <<backend, tree, all_services, todo, seen_names, startup_services>>
    /\ UNCHANGED NotInitSystemVars

NextInitSystem ==
    \/ SystemdGetAllServices
    \/ SysvGetAllServices
    \/ OpenRCGetAllServices
    \/ SystemdStartupStep
    \/ SysvStartupStep
    \/ OpenRCStartupStep
    \/ StartupReturn

SpecInitSystem == InitInitSystem /\ [][NextInitSystem]_vars

(* Claims about the init-system backends (SpecInitSystem). *)

\* the run-level entry a startup service was taken from is a symbolic link
LinkedFromRunLevel(s) ==
    \E i \in 1..Len(tree.listing) :
        /\ tree.listing[i].islink
        /\ s.name = IF backend = "sysv"
                    THEN SubSeq(tree.listing[i].name, 4, Len(tree.listing[i].name))
                    ELSE tree.listing[i].name

\* C17: when both listings of a backend have returned for one root, every
\* startup service is linked from a run-level directory, has status
\* enabled, and is listed under the same name by get_all_services.
C17_StartupSubsetOfAll ==
    ipc = "done" =>
        \A i \in 1..Len(startup_services) :
            /\ LinkedFromRunLevel(startup_services[i])
            /\ startup_services[i].status = "enabled"
            /\ \E j \in 1..Len(all_services) :
                   all_services[j].name = startup_services[i].name

(***************************************************************************)
(* The CycloneDX projection: generate_cyclonedx.                           *)
(***************************************************************************)

\* the values get_linux_distribution returns
Distros == {"debian", "rpm", "arch", "generic", "redhat", "unknown"}

\* f"pkg:{distro}/{name}@{version}"
Purl(d, n, v) == <<"pkg:", d, "/", n, "@">> \o v

\* Python's truth value of an Optional[str]
Truthy(x) == x # None /\ x # ""

CdxNames == {"A", "B"}
CdxVersions == {V118, VUnknown}
CdxOwners == {None, "A", UnknownPkg}
CdxPackages ==
    {l \in SeqsUpTo({PackageMetadata(n, v) : n \in CdxNames, v \in CdxVersions},
                    MaxPkgs) :
        \A i, j \in 1..Len(l) : i # j => l[i].name # l[j].name}
CdxServices ==
    {l \in SeqsUpTo({[ServiceMetadata("nginx.service", <<>>)
                         EXCEPT !.associated_package = o] : o \in CdxOwners} \cup
                    {ServiceMetadata("foo.service", <<>>)},
                    MaxUnits) :
        \A i, j \in 1..Len(l) : i # j => l[i].name # l[j].name}

InitCdx ==
    /\ \E ps \in CdxPackages, ss \in CdxServices :
           /\ cdx_result = [packages |-> ps, services |-> ss]
           \* a non-null associated_package names a package of the graph
           /\ \A i \in 1..Len(ss) :
                  (ss[i].associated_package \notin {None, UnknownPkg}) =>
                      \E j \in 1..Len(ps) : ps[j].name = ss[i].associated_package
    /\ distro \in Distros
    /\ components = <<>>
    /\ cdx_i = 0
    /\ cpc = "packages"
    /\ NotCdxIdle

\* for pkg in result.packages: components.append(component)
CdxPackageStep ==
    /\ cpc = "packages" /\ cdx_i < Len(cdx_result.packages)
    /\ LET pkg == cdx_result.packages[cdx_i + 1]
           purl == Purl(distro, pkg.name, pkg.version)
       IN  components' = Append(components,
                                [type |-> "application",
                                 name |-> pkg.name,
                                 version |-> pkg.version,
                                 group |-> "Application",
                                 purl |-> purl,
                                 bom_ref |-> purl])
    /\ cdx_i' = cdx_i + 1
    /\ UNCHANGED <<cdx_result, distro, cpc>>
    /\ UNCHANGED NotCdxVars

\* the package loop ends, the service loop starts
CdxPackagesDone ==
    /\ cpc = "packages" /\ cdx_i = Len(cdx_result.packages)
    /\ cdx_i' = 0
    /\ cpc' = "services"
    /\ UNCHANGED <<cdx_result, distro, components>>
    /\ UNCHANGED NotCdxVars

\* for svc in result.services: a component for a service without package
CdxServiceStep ==
    /\ cpc = "services" /\ cdx_i < Len(cdx_result.services)
    /\ LET svc == cdx_result.services[cdx_i + 1]
           purl == Purl(distro, svc.name, VUnknown)
       IN  components' =
               IF Truthy(svc.associated_package)
               THEN components
               ELSE Append(components,
                           [type |-> "application",
                            name |-> svc.name,
                            version |-> VUnknown,
                            purl |-> purl,
                            bom_ref |-> purl])
    /\ cdx_i' = cdx_i + 1
    /\ UNCHANGED <<cdx_result, distro, cpc>>
    /\ UNCHANGED NotCdxVars

\* return bom
CdxReturn ==
    /\ cpc = "services" /\ cdx_i = Len(cdx_result.services)
    /\ cpc' = "done"
    /\ UNCHANGED <<cdx_result, distro, components, cdx_i>>
    /\ UNCHANGED NotCdxVars

NextCdx ==
    \/ CdxPackageStep
    \/ CdxPackagesDone
    \/ CdxServiceStep
    \/ CdxReturn

SpecCdx == InitCdx /\ [][NextCdx]_vars

(* Claims about the CycloneDX projection (SpecCdx). *)

\* the one-to-one correspondences between components and package records
ComponentMaps ==
    {f \in [1..Len(components) -> 1..Len(cdx_result.packages)] :
        /\ \A i, j \in DOMAIN f : i # j => f[i] # f[j]
        /\ \A k \in 1..Len(cdx_result.packages) : \E i \in DOMAIN f : f[i] = k}

\* C18: the returned component list has exactly one component per package
\* record, each with the purl pkg:<distro>/<name>@<version> of its package,
\* and no other component.
C18_OneComponentPerPackage ==
    cpc = "done" =>
        \E f \in ComponentMaps :
            \A i \in DOMAIN f :
                /\ components[i].name = cdx_result.packages[f[i]].name
                /\ components[i].purl =
                       Purl(distro, cdx_result.packages[f[i]].name,
                            cdx_result.packages[f[i]].version)

(***************************************************************************)
(* The scan server: register_agent, create_scan and update_scan_results    *)
(* over the sqlite tables agents, scans, packages and vulnerabilities.     *)
(* A handler is an async function without an await before its return, run *)
(* by one event loop: it is one step.  A handler that raises leaves        *)
(* without conn.commit(), and get_db closes the connection: nothing it     *)
(* wrote is kept.                                                          *)
(***************************************************************************)

AgentIds == {"agent-1", "agent-2"}
Hostnames == {"host-a"}
ScanStatuses == {"running", "completed", "failed"}
NoField == "absent"

\* f"scan_{datetime.utcnow().strftime('%Y%m%d_%H%M%S')}_{scan_data['agent_id']}"
ScanIdOf(t, agent_id) == <<"scan_", t, "_", agent_id>>
ScanIds == {ScanIdOf(t, a) : t \in 0..MaxClock, a \in AgentIds}

\* SELECT id FROM agents WHERE agent_id = ?, fetchone(): the ids found
SelectAgent_None(tbl, agent_id) == {}
SelectAgent(tbl, agent_id) == {i \in 1..Len(tbl) : tbl[i].agent_id = agent_id}

\* SELECT id FROM scans WHERE scan_id = ?, fetchone(): the ids found
SelectScan_None(tbl, scan_id) == {}
SelectScan(tbl, scan_id) == {i \in 1..Len(tbl) : tbl[i].scan_id = scan_id}

\* fetchone() of a result: its first row
FirstRow(ids) == CHOOSE i \in ids : \A j \in ids : i <= j

Request(op, agent_id, scan_id, status) ==
    [op |-> op, agent_id |-> agent_id, scan_id |-> scan_id, status |-> status]

Answer(code, status, scan_id) ==
    [code |-> code, status |-> status, scan_id |-> scan_id]

\* the bodies agents send to PUT /api/scans/{scan_id}/results
ResultBodies ==
    {b \in [status : ScanStatuses \cup {NoField},
             packages : {NoField, "one"},
             vulnerabilities : {NoField, "one"}] :
        b.vulnerabilities = "one" => b.packages = "one"}

InitServer ==
    /\ schema \in [scan_id_unique : BOOLEAN]
    /\ agents = <<>>
    /\ scans = <<>>
    /\ packages = <<>>
    /\ vulnerabilities = <<>>
    /\ now = 0
    /\ issued = {}
    /\ request = Request("none", "", <<>>, "")
    /\ response = Answer(0, "", <<>>)
    /\ NotServerIdle

\* a second passes
Tick ==
    /\ now < MaxClock
    /\ now' = now + 1
    /\ request' = Request("none", "", <<>>, "")
    /\ response' = Answer(0, "", <<>>)
    /\ UNCHANGED <<schema, agents, scans, packages, vulnerabilities, issued>>
    /\ UNCHANGED NotServerVars

\* POST /api/agents/register
register_agent(agent_id, hostname) ==
    /\ request' = Request("register", agent_id, <<>>, "")
    /\ LET existing == SelectAgent(agents, agent_id)
       IN  IF existing # {}
           THEN /\ agents' = [i \in 1..Len(agents) |->
                                 IF agents[i].agent_id = agent_id
                                 THEN [agents[i] EXCEPT !.hostname = hostname,
                                                        !.status = "active",
                                                        !.last_heartbeat = now]
                                 ELSE agents[i]]
                /\ response' = Answer(200, "updated", <<>>)
           ELSE /\ agents' = Append(agents,
                                    [agent_id |-> agent_id,
                                     hostname |-> hostname,
                                     status |-> "active",
                                     last_heartbeat |-> now])
                /\ response' = Answer(200, "registered", <<>>)
    /\ UNCHANGED <<schema, scans, packages, vulnerabilities, now, issued>>
    /\ UNCHANGED NotServerVars

\* POST /api/scans
create_scan(agent_id) ==
    /\ Len(scans) < MaxScans
    /\ request' = Request("create", agent_id, <<>>, "")
    /\ LET scan_id == ScanIdOf(now, agent_id)
           agent_row == SelectAgent(agents, agent_id)
       IN  IF agent_row = {}
           THEN /\ response' = Answer(404, "", <<>>)
                /\ UNCHANGED <<scans, issued>>
           ELSE IF schema.scan_id_unique /\ SelectScan(scans, scan_id) # {}
           THEN \* sqlite3.IntegrityError
                /\ response' = Answer(500, "", <<>>)
                /\ UNCHANGED <<scans, issued>>
           ELSE /\ scans' = Append(scans,
                                   [scan_id |-> scan_id,
                                    agent_id |-> FirstRow(agent_row),
                                    status |-> "running",
                                    completed_at |-> None])
                /\ issued' = issued \cup {scan_id}
                /\ response' = Answer(200, "created", scan_id)
    /\ UNCHANGED <<schema, agents, packages, vulnerabilities, now>>
    /\ UNCHANGED NotServerVars

\* POST /api/scans/trigger
trigger_scan(agent_id) ==
    /\ Len(scans) < MaxScans
    /\ request' = Request("trigger", agent_id, <<>>, "")
    /\ LET scan_id == ScanIdOf(now, agent_id)
           agent_row == SelectAgent(agents, agent_id)
       IN  IF agent_row = {}
           THEN /\ response' = Answer(404, "", <<>>)
                /\ UNCHANGED scans
           ELSE IF schema.scan_id_unique /\ SelectScan(scans, scan_id) # {}
           THEN \* sqlite3.IntegrityError
                /\ response' = Answer(500, "", <<>>)
                /\ UNCHANGED scans
           ELSE /\ scans' = Append(scans,
                                   [scan_id |-> scan_id,
                                    agent_id |-> FirstRow(agent_row),
                                    status |-> "pending",
                                    completed_at |-> None])
                /\ response' = Answer(200, "pending", scan_id)
    /\ UNCHANGED <<schema, agents, packages, vulnerabilities, now, issued>>
    /\ UNCHANGED NotServerVars

\* datetime.utcnow().isoformat() if status in ["completed", "failed"] else
\* None: the column holds a time or NULL; which time is not kept
CompletedAt(status) ==
    IF status \in {"completed", "failed"} THEN "utcnow" ELSE None

\* PUT /api/scans/{scan_id}/results
update_scan_results(scan_id, results) ==
    /\ results.packages = "one" => Len(packages) < MaxRows
    /\ results.vulnerabilities = "one" => Len(vulnerabilities) < MaxRows
    /\ request' = Request("results", "", scan_id, results.status)
    /\ LET scan_row == SelectScan(scans, scan_id)
           status == IF results.status = NoField THEN "completed"
                     ELSE results.status
       IN  IF scan_row = {}
           THEN /\ response' = Answer(404, "", <<>>)
                /\ UNCHANGED <<scans, packages, vulnerabilities>>
           ELSE /\ scans' = [i \in 1..Len(scans) |->
                                IF scans[i].scan_id = scan_id
                                THEN [scans[i] EXCEPT
                                         !.status = status,
                                         !.completed_at = CompletedAt(status)]
                                ELSE scans[i]]
                /\ packages' =
                       IF results.packages = "one"
                       THEN Append(packages,
                                   [scan_id |-> FirstRow(scan_row), name |-> "test-pkg"])
                       ELSE packages
                /\ vulnerabilities' =
                       IF results.vulnerabilities = "one"
                       THEN Append(vulnerabilities,
                                   [scan_id |-> FirstRow(scan_row), cve_id |-> "CVE-1"])
                       ELSE vulnerabilities
                /\ response' = Answer(200, "updated", scan_id)
    /\ UNCHANGED <<schema, agents, now, issued>>
    /\ UNCHANGED NotServerVars

NextServer ==
    \/ Tick
    \/ \E agent_id \in AgentIds, hostname \in Hostnames :
           register_agent(agent_id, hostname)
    \/ \E agent_id \in AgentIds : create_scan(agent_id)
    \/ \E agent_id \in AgentIds : trigger_scan(agent_id)
    \/ \E scan_id \in ScanIds, results \in ResultBodies :
           update_scan_results(scan_id, results)

SpecServer == InitServer /\ [][NextServer]_vars

(* Claims about the scan server (SpecServer). *)

\* the rows of a table with a given agent_id
RowsOfAgent(tbl, agent_id) == {i \in 1..Len(tbl) : tbl[i].agent_id = agent_id}

\* C19: a register call answers 'registered' when the table had no row of
\* its agent_id and 'updated' when it had one; after it the table has
\* exactly one row of that agent_id, as many rows of every other agent_id
\* as before and at most one, and every row has status active.
C19_RegisterAgent ==
    [][request'.op = "register" =>
          /\ response'.status =
                 IF RowsOfAgent(agents, request'.agent_id) = {}
                 THEN "registered" ELSE "updated"
          /\ Cardinality(RowsOfAgent(agents', request'.agent_id)) = 1
          /\ \A other \in AgentIds \ {request'.agent_id} :
                 /\ RowsOfAgent(agents', other) = RowsOfAgent(agents, other)
                 /\ Cardinality(RowsOfAgent(agents', other)) <= 1
          /\ \A i \in 1..Len(agents') : agents'[i].status = "active"]_vars

\* a register call of a stored agent has answered 'updated', and both
\* agents are stored
C19_AgentUpdated ==
    /\ request.op = "register"
    /\ response.status = "updated"
    /\ Len(agents) = Cardinality(AgentIds)

\* the rows of scans with a given scan_id
RowsOfScan(tbl, scan_id) == {i \in 1..Len(tbl) : tbl[i].scan_id = scan_id}

\* C20: create_scan of a registered agent that answers with a scan_id has
\* stored a scan of that scan_id; update_scan_results with a scan_id that
\* create_scan answered with answers 'updated' and every stored scan of
\* that scan_id has the reported status; create_scan of an unregistered
\* agent and update_scan_results of an unknown scan_id answer 404 and
\* leave scans, packages and vulnerabilities as they were.
C20_ScanLifecycle ==
    [][/\ request'.op = "create" =>
              IF RowsOfAgent(agents, request'.agent_id) = {}
              THEN /\ response'.code = 404
                   /\ UNCHANGED <<scans, packages, vulnerabilities>>
              ELSE response'.code = 200 =>
                       RowsOfScan(scans', response'.scan_id) # {}
       /\ request'.op = "results" =>
              /\ request'.scan_id \in issued =>
                     /\ response'.status = "updated"
                     /\ RowsOfScan(scans', request'.scan_id) # {}
                     /\ request'.status # NoField =>
                            \A i \in RowsOfScan(scans', request'.scan_id) :
                                scans'[i].status = request'.status
              /\ RowsOfScan(scans, request'.scan_id) = {} =>
                     /\ response'.code = 404
                     /\ UNCHANGED <<scans, packages, vulnerabilities>>]_vars

\* a scan created for a registered agent has been reported failed, with a
\* package row stored for it
C20_ScanReported ==
    /\ request.op = "results"
    /\ response.status = "updated"
    /\ request.scan_id \in issued
    /\ \E i \in 1..Len(scans) :
           scans[i].scan_id = request.scan_id /\ scans[i].status = "failed"
    /\ packages # <<>>

\* an unknown scan_id has been answered 404 while scans are stored
C20_UnknownScan ==
    /\ request.op = "results"
    /\ response.code = 404
    /\ scans # <<>>

\* C26: a create_scan or trigger_scan request for a registered agent stores
\* a scan whose scan_id no other stored scan has, also when it is the
\* second such request for that agent within one clock second: no scan_id
\* identifies two scans.
C26_ScanIdIdentifiesOneScan ==
    [][(request'.op \in {"create", "trigger"}
           /\ SelectAgent(agents, request'.agent_id) # {}) =>
          /\ response'.code = 200
          /\ Len(scans') = Len(scans) + 1
          /\ \A i, j \in 1..Len(scans') :
                 scans'[i].scan_id = scans'[j].scan_id => i = j]_vars

\* C27: a scan whose stored status is completed or failed keeps a status
\* of completed or failed, and a completed_at, through every later step.
C27_StatusMovesForward ==
    [][\A i \in 1..Len(scans) :
          scans[i].status \in {"completed", "failed"} =>
              /\ scans'[i].status \in {"completed", "failed"}
              /\ scans'[i].completed_at # None]_vars

(***************************************************************************)
(* The scan agent: SBOMAgent.run with register, send_heartbeat,            *)
(* check_for_work, report_results and perform_scan, against the server's   *)
(* register_agent, get_pending_scans, update_scan_results and              *)
(* trigger_scan.  _request returns the JSON body of a successful request   *)
(* and None when the request raised (no connection, timeout, HTTP error).  *)
(***************************************************************************)

\* the requests the agent sends, by kind
RequestKinds == {"register", "heartbeat", "pending-scans", "results"}

\* what _request returns: the parsed body, or None
JsonBody == "json"
RequestResults(can_fail) == IF can_fail THEN {JsonBody, None} ELSE {JsonBody}

\* SBOMAgent.register: if result: return True; return False
register_AlwaysTrue(reply) == TRUE
register(reply) == Truthy(reply)

Bool(b) == IF b THEN "true" ELSE "false"

\* get_pending_scans: the agent's scans with status pending, ORDER BY id ASC
RECURSIVE PendingScans(_, _)
PendingScans(tbl, from) ==
    IF from > Len(tbl) THEN <<>>
    ELSE IF tbl[from] = "pending"
         THEN <<from>> \o PendingScans(tbl, from + 1)
         ELSE PendingScans(tbl, from + 1)

InitAgent ==
    /\ apc = "register"
    /\ reg_outcome = "none"
    /\ register_ret = "none"
    /\ sent = {}
    /\ n_register = 0
    /\ failures = 0
    /\ heartbeat_counter = 0
    /\ srv_registered = FALSE
    /\ srv_status = <<>>
    /\ pending_scans = <<>>
    /\ scan_i = 0
    /\ scan_outcome = "none"
    /\ fetched = {}
    /\ NotAgentIdle

\* run: if not self.register(): return
Register ==
    /\ apc = "register"
    /\ \E reply \in RequestResults(failures < MaxFailures) :
           /\ reg_outcome' = IF reply = None THEN "failed" ELSE "ok"
           /\ failures' = IF reply = None THEN failures + 1 ELSE failures
           /\ srv_registered' = (reply # None)
           /\ register_ret' = Bool(register(reply))
           /\ apc' = IF register(reply) THEN "heartbeat" ELSE "exited"
    /\ sent' = sent \cup {"register"}
    /\ n_register' = n_register + 1
    /\ UNCHANGED <<heartbeat_counter, srv_status, pending_scans, scan_i,
                   scan_outcome, fetched>>
    /\ UNCHANGED NotAgentVars

\* if heartbeat_counter % 5 == 0: self.send_heartbeat(); heartbeat_counter += 1
\* (the counter is kept modulo 5, the only way the code reads it)
Heartbeat ==
    /\ apc = "heartbeat"
    /\ IF heartbeat_counter = 0
       THEN /\ \E reply \in RequestResults(failures < MaxFailures) :
                   failures' = IF reply = None THEN failures + 1 ELSE failures
            /\ sent' = sent \cup {"heartbeat"}
       ELSE UNCHANGED <<failures, sent>>
    /\ heartbeat_counter' = (heartbeat_counter + 1) % 5
    /\ apc' = "poll"
    /\ UNCHANGED <<reg_outcome, register_ret, n_register, srv_registered,
                   srv_status, pending_scans, scan_i, scan_outcome, fetched>>
    /\ UNCHANGED NotAgentVars

\* pending_scans = self.check_for_work(): result if result else []
CheckForWork ==
    /\ apc = "poll"
    /\ \E reply \in RequestResults(failures < MaxFailures) :
           /\ failures' = IF reply = None THEN failures + 1 ELSE failures
           /\ pending_scans' = IF reply = None THEN <<>>
                               ELSE PendingScans(srv_status, 1)
    /\ sent' = sent \cup {"pending-scans"}
    /\ fetched' = fetched \cup SeqToSet(pending_scans')
    /\ scan_i' = 0
    /\ apc' = IF pending_scans' = <<>> THEN "sleep" ELSE "report_running"
    /\ UNCHANGED <<reg_outcome, register_ret, n_register, heartbeat_counter,
                   srv_registered, srv_status, scan_outcome>>
    /\ UNCHANGED NotAgentVars

\* self.report_results(scan_id, "running", {}); update_scan_results stores
\* the reported status
ReportRunning ==
    /\ apc = "report_running"
    /\ \E reply \in RequestResults(failures < MaxFailures) :
           /\ failures' = IF reply = None THEN failures + 1 ELSE failures
           /\ srv_status' = IF reply = None THEN srv_status
                            ELSE [srv_status EXCEPT
                                     ![pending_scans[scan_i + 1]] = "running"]
    /\ sent' = sent \cup {"results"}
    /\ apc' = "scan"
    /\ UNCHANGED <<reg_outcome, register_ret, n_register, heartbeat_counter,
                   srv_registered, pending_scans, scan_i, scan_outcome, fetched>>
    /\ UNCHANGED NotAgentVars

\* results = self.perform_scan(scan_type): a reply, a reply with "error",
\* or an exception; the last two are reported as failed
PerformScan ==
    /\ apc = "scan"
    /\ scan_outcome' \in {"completed", "failed"}
    /\ apc' = "report_final"
    /\ UNCHANGED <<reg_outcome, register_ret, sent, n_register, failures,
                   heartbeat_counter, srv_registered, srv_status, pending_scans,
                   scan_i, fetched>>
    /\ UNCHANGED NotAgentVars

\* self.report_results(scan_id, "completed" or "failed", results), then the
\* next scan of the list
ReportFinal ==
    /\ apc = "report_final"
    /\ \E reply \in RequestResults(failures < MaxFailures) :
           /\ failures' = IF reply = None THEN failures + 1 ELSE failures
           /\ srv_status' = IF reply = None THEN srv_status
                            ELSE [srv_status EXCEPT
                                     ![pending_scans[scan_i + 1]] = scan_outcome]
    /\ sent' = sent \cup {"results"}
    /\ scan_i' = scan_i + 1
    /\ scan_outcome' = "none"
    /\ apc' = IF scan_i + 1 < Len(pending_scans) THEN "report_running" ELSE "sleep"
    /\ UNCHANGED <<reg_outcome, register_ret, n_register, heartbeat_counter,
                   srv_registered, pending_scans, fetched>>
    /\ UNCHANGED NotAgentVars

\* time.sleep(self.poll_interval)
Sleep ==
    /\ apc = "sleep"
    /\ apc' = "heartbeat"
    /\ UNCHANGED <<reg_outcome, register_ret, sent, n_register, failures,
                   heartbeat_counter, srv_registered, srv_status, pending_scans,
                   scan_i, scan_outcome, fetched>>
    /\ UNCHANGED NotAgentVars

\* POST /api/scans/trigger by a user of the server: a pending scan is queued
\* for the registered agent
TriggerScan ==
    /\ srv_registered
    /\ Len(srv_status) < MaxTriggers
    /\ srv_status' = Append(srv_status, "pending")
    /\ UNCHANGED <<apc, reg_outcome, register_ret, sent, n_register, failures,
                   heartbeat_counter, srv_registered, pending_scans, scan_i,
                   scan_outcome, fetched>>
    /\ UNCHANGED NotAgentVars

AgentStep ==
    \/ Register
    \/ Heartbeat
    \/ CheckForWork
    \/ ReportRunning
    \/ PerformScan
    \/ ReportFinal
    \/ Sleep

NextAgent == AgentStep \/ TriggerScan

SpecAgent == InitAgent /\ [][NextAgent]_vars

\* the agent process keeps running: a step it can take is eventually taken
SpecAgentFair == SpecAgent /\ WF_vars(AgentStep)

(* Claims about the agent (SpecAgent, SpecAgentFair). *)

\* C21: register() returns true exactly when its one registration request
\* succeeded; a heartbeat, a pending-scan query or a reply report is sent
\* only after a successful registration; run() has exited, without polling,
\* exactly when register() returned false.
C21_RegisterBeforePolling ==
    /\ n_register <= 1
    /\ register_ret # "none" =>
           (register_ret = "true" <=> reg_outcome = "ok")
    /\ sent \cap {"heartbeat", "pending-scans", "results"} # {} =>
           reg_outcome = "ok"
    /\ apc = "exited" <=> register_ret = "false"
    /\ apc = "exited" => sent = {"register"}

\* the registration request failed and run() has returned
C21_ExitedUnregistered ==
    /\ reg_outcome = "failed"
    /\ register_ret = "false"
    /\ apc = "exited"

\* C28: a pending scan the agent has fetched is eventually stored as
\* completed or failed, request failures being finitely many.
C28_FetchedScanFinishes ==
    \A s \in 1..MaxTriggers :
        (s \in fetched) ~>
            (s <= Len(srv_status) /\ srv_status[s] \in {"completed", "failed"})

(***************************************************************************)
(* The agent's package scanners: scan_apt_packages and scan_rpm_packages   *)
(* parse the text dpkg-query and rpm print, one "name|version|arch" line   *)
(* per package.                                                            *)
(***************************************************************************)

\* the characters str.strip() removes
Whitespace == {" ", "\n", "\t"}

RECURSIVE LStripWhitespace(_)
LStripWhitespace(s) ==
    IF s # <<>> /\ Head(s) \in Whitespace THEN LStripWhitespace(Tail(s)) ELSE s

RECURSIVE RStripWhitespace(_)
RStripWhitespace(s) ==
    IF s # <<>> /\ s[Len(s)] \in Whitespace
    THEN RStripWhitespace(SubSeq(s, 1, Len(s) - 1)) ELSE s

\* result.stdout.strip()
StripWhitespace(s) == RStripWhitespace(LStripWhitespace(s))

\* if len(parts) >= 2
HasPackageFields_Three(parts) == Len(parts) >= 3
HasPackageFields(parts) == Len(parts) >= 2

\* the dict appended for one line
PackageEntry(parts, package_manager) ==
    [name            |-> parts[1],
     version         |-> parts[2],
     architecture    |-> IF Len(parts) > 2 THEN parts[3] ELSE VUnknown,
     package_manager |-> package_manager]

\* for line in ...: if not line: continue; parts = line.split("|"); ...
RECURSIVE ParsePackageLines(_, _)
ParsePackageLines(lines, package_manager) ==
    IF lines = <<>> THEN <<>>
    ELSE LET line == Head(lines)
             parts == SplitOn(line, "|", <<>>)
             rest == ParsePackageLines(Tail(lines), package_manager)
         IN  IF line = <<>> THEN rest
             ELSE IF HasPackageFields(parts)
                  THEN <<PackageEntry(parts, package_manager)>> \o rest
                  ELSE rest

\* scan_apt_packages on the output of dpkg-query: split("\n")
scan_apt_packages(out) ==
    LET pkgs == ParsePackageLines(SplitOn(StripWhitespace(out), "\n", <<>>), "apt")
    IN  [packages |-> pkgs, total_count |-> Len(pkgs)]

\* scan_rpm_packages on the output of rpm: split("\\n"), the separator being
\* the two characters backslash and n
scan_rpm_packages(out) ==
    LET pkgs == ParsePackageLines(
                    SplitStr(StripWhitespace(out), <<"\\", "n">>, <<>>), "rpm")
    IN  [packages |-> pkgs, total_count |-> Len(pkgs)]

\* what the scanner returns when the tool is missing or fails
ScanError(why) == [error |-> why, packages |-> <<>>]

\* how the two subprocess.run calls end: `which` finds nothing, the query
\* exits non-zero (CalledProcessError), or the query prints its output
QueryOutcomes == {"not found", "failed", "ok"}

\* lines a package query prints: three fields, two fields, no separator,
\* an empty line
QueryLines ==
    {<<"a", "|", "1", "|", "x">>, <<"b", "|", "2", "|", "y">>,
     <<"c", "|", "3">>, <<"d">>, <<>>}

\* the outputs: up to MaxLines lines, with or without the final newline
QueryOutputs ==
    {Join(ls, NL) \o tail : ls \in SeqsUpTo(QueryLines, MaxLines), tail \in {<<>>, NL}}

InitScanner ==
    /\ stdout \in QueryOutputs
    /\ scanner = "none"
    /\ scan_result = None
    /\ spc = "start"
    /\ NotScannerIdle

ScanApt ==
    /\ spc = "start"
    /\ \E outcome \in QueryOutcomes :
           scan_result' = IF outcome = "ok" THEN scan_apt_packages(stdout)
                          ELSE ScanError(outcome)
    /\ scanner' = "apt"
    /\ spc' = "done"
    /\ UNCHANGED stdout
    /\ UNCHANGED NotScannerVars

ScanRpm ==
    /\ spc = "start"
    /\ \E outcome \in QueryOutcomes :
           scan_result' = IF outcome = "ok" THEN scan_rpm_packages(stdout)
                          ELSE ScanError(outcome)
    /\ scanner' = "rpm"
    /\ spc' = "done"
    /\ UNCHANGED stdout
    /\ UNCHANGED NotScannerVars

NextScanner == ScanApt \/ ScanRpm

SpecScanner == InitScanner /\ [][NextScanner]_vars

(* Claims about the scanners (SpecScanner). *)

\* the lines of the query output, as the text has them
OutputLines == SplitOn(stdout, "\n", <<>>)
\* the non-empty lines with at least two '|'-separated fields
PackageLines ==
    {i \in 1..Len(OutputLines) :
        OutputLines[i] # <<>> /\ "|" \in SeqToSet(OutputLines[i])}
\* the k-th of them, in input order
PackageLine(k) ==
    OutputLines[CHOOSE i \in PackageLines :
                    Cardinality({j \in PackageLines : j < i}) = k - 1]
Scanned(which) ==
    spc = "done" /\ scanner = which /\ "total_count" \in DOMAIN scan_result

\* C22: scan_apt_packages returns one entry, in input order, for every
\* non-empty line of the dpkg-query output that has at least two
\* '|'-separated fields, its name the first field and its version the
\* second, and total_count is the number of entries returned.
C22_AptOneEntryPerLine ==
    Scanned("apt") =>
        /\ Len(scan_result.packages) = Cardinality(PackageLines)
        /\ scan_result.total_count = Len(scan_result.packages)
        /\ \A k \in 1..Len(scan_result.packages) :
               LET fields == SplitOn(PackageLine(k), "|", <<>>)
               IN  /\ scan_result.packages[k].name = fields[1]
                   /\ scan_result.packages[k].version = fields[2]

\* two packages were returned from an output with an empty line between
\* its lines and a line of two fields
C22_TwoOfThreeLines ==
    /\ Scanned("apt")
    /\ scan_result.total_count = 2
    /\ \E i \in 2..(Len(OutputLines) - 1) : OutputLines[i] = <<>>
    /\ \E k \in 1..2 : scan_result.packages[k].architecture = VUnknown

\* C30: on the same text scan_rpm_packages returns what scan_apt_packages
\* returns: one package per non-empty line, with the same name, version
\* and architecture, and total_count the number of such lines.
C30_RpmParsesLikeApt ==
    Scanned("rpm") =>
        LET apt == scan_apt_packages(stdout)
        IN  /\ scan_result.total_count = apt.total_count
            /\ Len(scan_result.packages) = Len(apt.packages)
            /\ \A k \in 1..Len(apt.packages) :
                   /\ scan_result.packages[k].name = apt.packages[k].name
                   /\ scan_result.packages[k].version = apt.packages[k].version
                   /\ scan_result.packages[k].architecture =
                          apt.packages[k].architecture

(***************************************************************************)
(* Resolving the executable a unit names against the volume root, and the  *)
(* path ownership matching then looks up: _extract_executable_paths and    *)
(* the normalisation loop of _find_owning_packages, for APT and pacman.    *)
(***************************************************************************)

\* "/mnt/usr/bin/foo": PFoo written with the volume root /mnt in front
PMntFoo == MntVol \o PFoo

RawPaths == {PFoo, PNginx, PMntFoo}
VolumeRoots == {RootVol, MntVol}
ProbedFiles == {PFoo, PNginx}

\* os.path.exists on the analysing host: its own files and, under the
\* mount point, the files of the volume
HostExists(volume_path, on_volume, on_host) ==
    IF volume_path = RootVol THEN on_volume
    ELSE on_host \cup {volume_path \o f : f \in on_volume}

\* the unit file naming one executable
UnitNaming(path) == <<[key |-> "ExecStart", value |-> path]>>

InitExtract ==
    /\ raw_path \in RawPaths
    /\ vroot \in VolumeRoots
    /\ vol_files \in SUBSET ProbedFiles
    /\ host_files \in SUBSET ProbedFiles
    /\ vroot = RootVol => host_files = vol_files
    /\ analyzer = "none"
    /\ handed = <<>>
    /\ matched = <<>>
    /\ epc = "start"
    /\ NotExtractIdle

\* APTAnalyzer: exec_paths = _extract_executable_paths(...), then the
\* normalisation loop of _find_owning_packages
AptExtract ==
    /\ epc = "start"
    /\ LET exec_paths == AptExtractExecutablePaths(
                             UnitNaming(raw_path), vroot, vol_files,
                             HostExists(vroot, vol_files, host_files))
       IN  /\ handed' = exec_paths
           /\ matched' = [e \in 1..Len(exec_paths) |->
                             AptNormalize(exec_paths[e], vroot)]
    /\ analyzer' = "apt"
    /\ epc' = "done"
    /\ UNCHANGED <<raw_path, vroot, vol_files, host_files>>
    /\ UNCHANGED NotExtractVars

\* PacmanAnalyzer: the same two steps
PacmanExtract ==
    /\ epc = "start"
    /\ LET exec_paths == PacmanExtractExecutablePaths(UnitNaming(raw_path))
       IN  /\ handed' = exec_paths
           /\ matched' = [e \in 1..Len(exec_paths) |->
                             PacmanTarget(exec_paths[e], vroot)]
    /\ analyzer' = "pacman"
    /\ epc' = "done"
    /\ UNCHANGED <<raw_path, vroot, vol_files, host_files>>
    /\ UNCHANGED NotExtractVars

NextExtract == AptExtract \/ PacmanExtract

SpecExtract == InitExtract /\ [][NextExtract]_vars

(* Claim about the paths handed to ownership matching (SpecExtract). *)

\* path lies under the volume root
UnderVolume(path, volume_path) ==
    LET root == Components(volume_path)
        cs == Components(path)
    IN  Len(cs) >= Len(root) /\ SubSeq(cs, 1, Len(root)) = root

\* C23: every executable path handed to ownership matching lies under the
\* volume root, none being taken from the host filesystem outside it, and
\* it normalises to the root-relative path of the raw token, whether the
\* token was volume-prefixed or not.
C23_PathsUnderVolumeRoot ==
    epc = "done" =>
        \A e \in 1..Len(handed) :
            /\ analyzer = "apt" => UnderVolume(handed[e], vroot)
            /\ LStrip(matched[e], "/") = RootRelative(raw_path, vroot)

(***************************************************************************)
(* parse_service_executables of the three init systems, on one service     *)
(* file: a systemd unit as its key=value lines, a SysV or OpenRC script    *)
(* as its text.                                                            *)
(***************************************************************************)

s_DAEMON == <<"D", "A", "E", "M", "O", "N">>
s_BINARY == <<"B", "I", "N", "A", "R", "Y">>
s_COMMAND == <<"C", "O", "M", "M", "A", "N", "D">>
s_command == <<"c", "o", "m", "m", "a", "n", "d">>
s_NAME == <<"N", "A", "M", "E">>
s_command_args == s_command \o <<"_", "a", "r", "g", "s">>
Eq == <<"=">>
DQuote == <<"\"">>
s_opt == <<" ", "-", "x">>

\* the directive names of the two regular expressions
SysVKeys == {s_DAEMON, s_BINARY, s_COMMAND}
OpenRCKeys == {s_command}
Quotes == {"\"", "'"}

\* ^ under re.MULTILINE: the start of the text or just after a newline
LineStart(text, p) == p = 1 \/ text[p - 1] = "\n"

\* how many characters [^"']+ takes from position p: all up to the next
\* quote or the end of the text, newlines included
RECURSIVE RunLen(_, _)
RunLen(text, p) ==
    IF p > Len(text) \/ text[p] \in Quotes THEN 0 ELSE 1 + RunLen(text, p + 1)

\* re.findall(r'^(?:KEYS)=["\']?([^"\']+)["\']?', content, re.MULTILINE):
\* the captured groups of the successive matches, from position p on
RECURSIVE FindDirectives(_, _, _)
FindDirectives(text, keys, p) ==
    IF p > Len(text) THEN <<>>
    ELSE LET rest == SubSeq(text, p, Len(text))
             found == {k \in keys : StartsWith(rest, k \o Eq)}
         IN  IF ~LineStart(text, p) \/ found = {}
             THEN FindDirectives(text, keys, p + 1)
             ELSE LET q == p + Len(CHOOSE k \in found : TRUE) + 1
                      from == IF q <= Len(text) /\ text[q] \in Quotes
                              THEN q + 1 ELSE q
                      n == RunLen(text, from)
                      after == from + n
                      next == IF after <= Len(text) /\ text[after] \in Quotes
                              THEN after + 1 ELSE after
                  IN  IF n = 0 THEN FindDirectives(text, keys, p + 1)
                      ELSE <<SubSeq(text, from, after - 1)>>
                               \o FindDirectives(text, keys, next)

\* path = m.strip(); if path.startswith("/"): execs.append(path)
DirectivePaths(matches) ==
    {StripWhitespace(matches[i]) : i \in
        {k \in 1..Len(matches) : StartsWith(StripWhitespace(matches[k]), Slash)}}

\* SysVInitAnalyzer.parse_service_executables: execs = [service_path], then
\* the matches; list(set(execs)), as the set
sysv_parse_service_executables(service_path, content) ==
    {service_path} \cup DirectivePaths(FindDirectives(content, SysVKeys, 1))

\* OpenRCAnalyzer.parse_service_executables
openrc_parse_service_executables(service_path, content) ==
    {service_path} \cup DirectivePaths(FindDirectives(content, OpenRCKeys, 1))

\* the service files
UnitPath == <<"/", "l", "i", "b", "/", "f", "o", "o", ".", "s", "e", "r", "v", "i", "c", "e">>
ScriptPath == <<"/", "e", "t", "c", "/", "i", "n", "i", "t", ".", "d", "/", "f", "o", "o">>

\* lines of a unit file
UnitLinePool ==
    {ExecLine("ExecStart", PNginx \o s_args),
     ExecLine("ExecStartPre", <<"-">> \o PFoo),
     ExecLine("ExecStop", PFoo),
     ExecLine("ExecReload", s_foo),
     ExecLine("Description", PFoo)}

\* lines of a SysV script and of an OpenRC script
SysVLinePool ==
    {s_DAEMON \o Eq \o PNginx,
     s_DAEMON \o Eq \o DQuote \o PFoo \o s_opt \o DQuote,
     s_BINARY \o Eq \o PFoo \o s_opt,
     s_NAME \o Eq \o s_foo}
OpenRCLinePool ==
    {s_command \o Eq \o DQuote \o PNginx \o DQuote,
     s_command \o Eq \o PFoo,
     s_command_args \o Eq \o DQuote \o s_opt \o DQuote}

ScriptText(lines) == IF lines = <<>> THEN <<>> ELSE Join(lines, NL) \o NL

ServiceFiles ==
    {[kind |-> "systemd", path |-> UnitPath, content |-> ls] :
        ls \in SeqsUpTo(UnitLinePool, MaxScriptLines)}
    \cup {[kind |-> "sysv", path |-> ScriptPath, content |-> ScriptText(ls)] :
        ls \in SeqsUpTo(SysVLinePool, MaxScriptLines)}
    \cup {[kind |-> "openrc", path |-> ScriptPath, content |-> ScriptText(ls)] :
        ls \in SeqsUpTo(OpenRCLinePool, MaxScriptLines)}

InitParse ==
    /\ service_file \in ServiceFiles
    /\ returned = <<>>
    /\ ppc = "start"
    /\ NotParseIdle

\* the list a set gives: its members in some order
ReturnSet(execs) ==
    /\ \E order \in Orderings(execs) : returned' = order
    /\ ppc' = "done"
    /\ UNCHANGED service_file
    /\ UNCHANGED NotParseVars

SystemdParse ==
    /\ ppc = "start"
    /\ service_file.kind = "systemd"
    /\ ReturnSet(parse_service_executables([lines |-> service_file.content]))

SysVParse ==
    /\ ppc = "start"
    /\ service_file.kind = "sysv"
    /\ ReturnSet(sysv_parse_service_executables(service_file.path, service_file.content))

OpenRCParse ==
    /\ ppc = "start"
    /\ service_file.kind = "openrc"
    /\ ReturnSet(openrc_parse_service_executables(service_file.path, service_file.content))

NextParse == SystemdParse \/ SysVParse \/ OpenRCParse

SpecParse == InitParse /\ [][NextParse]_vars

(* Claims about parse_service_executables (SpecParse). *)

\* the Exec*= directives of a unit file
UnitDirectives ==
    {"ExecStart", "ExecStartPre", "ExecStartPost", "ExecStop", "ExecStopPost",
     "ExecReload"}

\* the first token of a directive value, leading modifiers stripped
FirstToken(value) ==
    LET parts == Tokens(StripModifiers(Strip(value)))
    IN  IF parts = <<>> THEN <<>> ELSE parts[1]

\* the absolute first tokens of the Exec*= lines, each once, in order of
\* first appearance
RECURSIVE FirstAppearance(_, _)
FirstAppearance(lines, acc) ==
    IF lines = <<>> THEN acc
    ELSE LET l == Head(lines)
             t == FirstToken(l.value)
         IN  FirstAppearance(Tail(lines),
                 IF l.key \in UnitDirectives /\ StartsWith(t, Slash)
                    /\ t \notin SeqToSet(acc)
                 THEN Append(acc, t) ELSE acc)

\* C24: for a systemd unit file the returned list holds, for every Exec*=
\* line (ExecStart, ExecStartPre, ExecStartPost, ExecStop, ExecStopPost,
\* ExecReload), the first token of its value with the leading modifiers
\* stripped, when that token begins with '/', and nothing else, each path
\* once, in order of first appearance.
C24_SystemdExecPaths ==
    (ppc = "done" /\ service_file.kind = "systemd") =>
        returned = FirstAppearance(service_file.content, <<>>)

\* the first token of the value of a directive line of a script: the text
\* after KEY= and an opening quote, up to a blank or a quote
RECURSIVE UpToDelimiter(_)
UpToDelimiter(s) ==
    IF s = <<>> \/ Head(s) \in Quotes \cup Whitespace THEN <<>>
    ELSE <<Head(s)>> \o UpToDelimiter(Tail(s))

DirectiveToken(line, keys) ==
    LET k == CHOOSE k \in keys : StartsWith(line, k \o Eq)
        value == SubSeq(line, Len(k) + 2, Len(line))
    IN  UpToDelimiter(IF value # <<>> /\ Head(value) \in Quotes
                      THEN Tail(value) ELSE value)

DirectiveTokens(text, keys) ==
    LET lines == SplitOn(text, "\n", <<>>)
    IN  {DirectiveToken(lines[i], keys) : i \in
            {j \in 1..Len(lines) : \E k \in keys : StartsWith(lines[j], k \o Eq)}}

\* C25: for a SysV script and an OpenRC script every returned path is the
\* first token of the value of a DAEMON=, BINARY=, COMMAND= (SysV) or
\* command= (OpenRC) line and begins with '/': no arguments, no text of
\* following lines, not the script's own path.
C25_ScriptExecPaths ==
    (ppc = "done" /\ service_file.kind \in {"sysv", "openrc"}) =>
        \A i \in 1..Len(returned) :
            /\ StartsWith(returned[i], Slash)
            /\ returned[i] \in
                   DirectiveTokens(service_file.content,
                       IF service_file.kind = "sysv" THEN SysVKeys ELSE OpenRCKeys)

(***************************************************************************)
(* main(): the root the run works on.  target_path is resolved from the    *)
(* input source, probed by init-system and package-manager detection, and  *)
(* an AnalysisContext is built for the selected analyzer.                  *)
(***************************************************************************)

\* an argument argparse leaves at None
NotGiven == <<>>

\* --volume-path values: absolute, and relative to the working directory
SrvVol == <<"/", "s", "r", "v">>
RelVol == <<"v", "o", "l">>
WorkDir == <<"/", "w">>
\* os.path.join(temp_dir, container_id), the directory export_container returns
ExportDir == <<"/", "t", "m", "p", "/", "c", "1">>

\* os.path.abspath(path) in the working directory
AbsPath(path) ==
    IF StartsWith(path, Slash) THEN Slash \o Join(Components(path), Slash)
    ELSE Slash \o Join(Components(WorkDir) \o Components(path), Slash)

CliArgs ==
    [volume_path : {NotGiven, SrvVol, RelVol},
     docker : {NotGiven, <<"c", "1">>},
     analysis_mode : {"static", "chroot"}]

InitMain ==
    /\ cli \in CliArgs
    /\ target_path = NotGiven
    /\ probed = {}
    /\ selected = "none"
    /\ context_root = NotGiven
    /\ analysed = "none"
    /\ mpc = "source"
    /\ NotMainIdle

\* step 0: the input source, os.path.abspath and the existence test
ResolveTarget ==
    /\ mpc = "source"
    /\ \E export \in {"no docker", "export failed", "exported"}, exists \in BOOLEAN :
           LET path == IF cli.docker # NotGiven THEN ExportDir
                       ELSE IF cli.volume_path = NotGiven THEN MntVol
                       ELSE cli.volume_path
           IN  IF cli.docker # NotGiven /\ export # "exported"
               THEN /\ mpc' = "returned"
                    /\ UNCHANGED target_path
               ELSE /\ target_path' = AbsPath(path)
                    /\ mpc' = IF exists THEN "detect" ELSE "returned"
    /\ UNCHANGED <<cli, probed, selected, context_root, analysed>>
    /\ UNCHANGED NotMainVars

\* steps 1 and 2: i.detect(target_path) of the init systems and
\* analyzer.detect(target_path) of the package managers, the first that
\* detects being selected
Detect ==
    /\ mpc = "detect"
    /\ probed' = probed \cup {target_path}
    /\ \E found \in {"none", "APTAnalyzer", "RPMAnalyzer", "PacmanAnalyzer", "APKAnalyzer"} :
           /\ selected' = found
           /\ mpc' = IF found = "none" THEN "returned" ELSE "context"
    /\ UNCHANGED <<cli, target_path, context_root, analysed>>
    /\ UNCHANGED NotMainVars

\* step 3: AnalysisContext(volume_path=os.path.abspath(args.volume_path), ...);
\* os.path.abspath(None) raises TypeError, reported as a fatal error
BuildContext ==
    /\ mpc = "context"
    /\ IF cli.volume_path = NotGiven
       THEN /\ mpc' = "fatal"
            /\ UNCHANGED context_root
       ELSE /\ context_root' = AbsPath(cli.volume_path)
            /\ mpc' = "analyze"
    /\ UNCHANGED <<cli, target_path, probed, selected, analysed>>
    /\ UNCHANGED NotMainVars

\* the dispatch: analyze_static, or analyze_chroot for a mounted volume in
\* chroot mode
Analyze ==
    /\ mpc = "analyze"
    /\ analysed' = IF cli.analysis_mode = "chroot" /\ cli.docker = NotGiven
                   THEN "chroot" ELSE "static"
    /\ mpc' = "done"
    /\ UNCHANGED <<cli, target_path, probed, selected, context_root>>
    /\ UNCHANGED NotMainVars

NextMain == ResolveTarget \/ Detect \/ BuildContext \/ Analyze

SpecMain == InitMain /\ [][NextMain]_vars

(* Claim about main (SpecMain). *)

\* C29: once an analyzer is selected, the context it is given is built and
\* its root is the target_path that detection probed, for an explicit
\* --volume-path, for a --docker export directory and for the /mnt default.
C29_ContextRootIsTarget ==
    mpc \in {"analyze", "done", "fatal"} =>
        /\ mpc # "fatal"
        /\ probed = {target_path}
        /\ context_root = target_path

-----------------------------------------------------------------------------
====
